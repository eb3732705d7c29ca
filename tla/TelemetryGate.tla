----------------------------- MODULE TelemetryGate -----------------------------
(***************************************************************************)
(* One run's gate connection: the harness SDK (Telemetry.tool_call and its *)
(* asyncio lock) at one end, IpcServer._handle with GateDispatcher at the  *)
(* other, and the two byte streams between them.                           *)
(*                                                                         *)
(* Several coroutines of the harness may have a tool call in progress.  A  *)
(* gate request is one frame to the auditor and one frame back; nothing in *)
(* either frame ties an answer to its request.  The SDK gives up on an     *)
(* answer after gate_timeout_ms, at any moment from the model's view.  The *)
(* auditor may take arbitrarily long, its stores may fail, the connection  *)
(* may go down; the SDK never reconnects.                                  *)
(***************************************************************************)
EXTENDS Integers, FiniteSets, Sequences

CONSTANTS
    ToolCalls,   \* the tool calls the agent makes in this run
    MaxBuffer,   \* bound: frames the socket takes before drain() blocks the writer
    NoCall       \* no call

Decisions == {"ALLOW", "DENY", "CONFIRM"}

ASSUME MaxBufferAssumption == MaxBuffer \in Nat \ {0}
ASSUME NoCallAssumption == NoCall \notin ToolCalls \cup Decisions

VARIABLES
    sdkPc,      \* tool call -> where its coroutine is in tool_call
    sdkLock,    \* the coroutine holding Telemetry._lock
    toAuditor,  \* frames written by the harness and not yet read by the auditor
    toHarness,  \* responses written by the auditor and not yet read by the harness
    connected,  \* the connection is up
    srv,        \* what _handle is doing: idle, or a request and the stage of _gate
    stored,     \* rows of the events table, in the order they were written
    decided,    \* tool call -> the decision the auditor took for it
    gateRows,   \* rows of gate_decisions
    ran,        \* tool calls whose body was started
    answerOf,   \* tool call -> the tool call whose response it took as its answer
    timedOut    \* tool calls whose wait for the answer timed out

sdkVars == <<sdkPc, sdkLock, ran, answerOf, timedOut>>
srvVars == <<srv, stored, decided, gateRows>>
gateVars == <<sdkVars, srvVars, toAuditor, toHarness, connected>>

Idle == [stage |-> "idle"]

GateInit ==
    /\ sdkPc = [c \in ToolCalls |-> "new"]
    /\ sdkLock = NoCall
    /\ toAuditor = << >>
    /\ toHarness = << >>
    /\ connected = TRUE
    /\ srv = Idle
    /\ stored = << >>
    /\ decided = [c \in ToolCalls |-> NoCall]
    /\ gateRows = {}
    /\ ran = {}
    /\ answerOf = [c \in ToolCalls |-> NoCall]
    /\ timedOut = {}

Goto(c, label) == sdkPc' = [sdkPc EXCEPT ![c] = label]

------------------------------------------------------------------------------
\* The harness: Telemetry.tool_call.

\* tool_call builds the start event and waits for the lock in _request_gate.
StartCall(c) ==
    /\ sdkPc[c] = "new"
    /\ Goto(c, "reqLock")
    /\ UNCHANGED <<sdkLock, ran, answerOf, timedOut, srvVars, toAuditor, toHarness, connected>>

\* Mutated form: the frames of different coroutines are not serialized by the lock.
TakeLockUnguarded(c) ==
    /\ \/ sdkPc[c] = "reqLock" /\ Goto(c, "reqWrite")
       \/ sdkPc[c] = "denyLock" /\ Goto(c, "denyWrite")
       \/ sdkPc[c] = "endLock" /\ Goto(c, "endWrite")
    /\ sdkLock' = c
    /\ UNCHANGED <<ran, answerOf, timedOut, srvVars, toAuditor, toHarness, connected>>

\* async with self._lock, in _request_gate and in _send_event.
TakeLock(c) ==
    /\ sdkLock = NoCall
    /\ \/ sdkPc[c] = "reqLock" /\ Goto(c, "reqWrite")
       \/ sdkPc[c] = "denyLock" /\ Goto(c, "denyWrite")
       \/ sdkPc[c] = "endLock" /\ Goto(c, "endWrite")
    /\ sdkLock' = c
    /\ UNCHANGED <<ran, answerOf, timedOut, srvVars, toAuditor, toHarness, connected>>

\* write_frame of the request: drain() waits while the buffers are full, and no timeout covers it.
\* On a broken connection it raises, which tool_call turns into DENY.
WriteRequest(c) ==
    /\ sdkPc[c] = "reqWrite"
    /\ \/ /\ connected
          /\ Len(toAuditor) < MaxBuffer
          /\ toAuditor' = Append(toAuditor, [kind |-> "req", call |-> c])
          /\ Goto(c, "await")
          /\ UNCHANGED sdkLock
       \/ /\ ~connected
          /\ Goto(c, "denyLock")
          /\ sdkLock' = NoCall
          /\ UNCHANGED toAuditor
    /\ UNCHANGED <<ran, answerOf, timedOut, srvVars, toHarness, connected>>

\* The next frame on the stream is taken as the answer, whichever request it answers.
TakeAnswer(c) ==
    /\ sdkPc[c] = "await"
    /\ toHarness # << >>
    /\ ~Head(toHarness).torn
    /\ toHarness' = Tail(toHarness)
    /\ answerOf' = [answerOf EXCEPT ![c] = Head(toHarness).call]
    /\ IF Head(toHarness).decision = "DENY"
       THEN Goto(c, "denyLock") /\ UNCHANGED ran
       ELSE Goto(c, "run") /\ ran' = ran \cup {c}
    /\ sdkLock' = NoCall
    /\ UNCHANGED <<timedOut, srvVars, toAuditor, connected>>

\* Mutated form: the lock is not released when the wait times out.
TimeoutKeepsLock(c) ==
    /\ sdkPc[c] = "await"
    /\ Goto(c, "denyLock")
    /\ timedOut' = timedOut \cup {c}
    /\ UNCHANGED <<sdkLock, toHarness, ran, answerOf, srvVars, toAuditor, connected>>

\* wait_for gives up: fail closed.  The answer, if one comes, stays on the stream.  When only a
\* part of it had arrived, the part is lost and the rest of the frame stays ("torn").
Timeout(c) ==
    /\ sdkPc[c] = "await"
    /\ Goto(c, "denyLock")
    /\ sdkLock' = NoCall
    /\ timedOut' = timedOut \cup {c}
    /\ \/ UNCHANGED toHarness
       \/ /\ toHarness # << >>
          /\ toHarness' = [toHarness EXCEPT ![1].torn = TRUE]
    /\ UNCHANGED <<ran, answerOf, srvVars, toAuditor, connected>>

\* The rest of a torn frame is read as a header: the length is absurd, read_frame raises FrameError,
\* which tool_call does not handle.  The reader may or may not be back at a frame boundary.
ReadTornFrame(c) ==
    /\ sdkPc[c] = "await"
    /\ toHarness # << >>
    /\ Head(toHarness).torn
    /\ toHarness' \in {toHarness, Tail(toHarness)}
    /\ Goto(c, "failed")
    /\ sdkLock' = NoCall
    /\ UNCHANGED <<ran, answerOf, timedOut, srvVars, toAuditor, connected>>

\* End of stream (IncompleteReadError, not handled by tool_call) or a reset (handled: DENY).
ReadEof(c) ==
    /\ sdkPc[c] = "await"
    /\ ~connected
    /\ toHarness = << >>
    /\ \/ Goto(c, "failed")
       \/ Goto(c, "denyLock")
    /\ sdkLock' = NoCall
    /\ UNCHANGED <<ran, answerOf, timedOut, srvVars, toAuditor, toHarness, connected>>

\* The tool's body returns or raises; the finally clause sends the end event.
FinishBody(c) ==
    /\ sdkPc[c] = "run"
    /\ Goto(c, "endLock")
    /\ UNCHANGED <<sdkLock, ran, answerOf, timedOut, srvVars, toAuditor, toHarness, connected>>

\* _send_tool_end: a broken connection is ignored; drain() waits like for a request.
WriteEnd(c) ==
    /\ \/ sdkPc[c] = "denyWrite" /\ Goto(c, "denied")
       \/ sdkPc[c] = "endWrite" /\ Goto(c, "done")
    /\ \/ /\ connected
          /\ Len(toAuditor) < MaxBuffer
          /\ toAuditor' = Append(toAuditor, [kind |-> "end", call |-> c])
       \/ /\ ~connected
          /\ UNCHANGED toAuditor
    /\ sdkLock' = NoCall
    /\ UNCHANGED <<ran, answerOf, timedOut, srvVars, toHarness, connected>>

------------------------------------------------------------------------------
\* The auditor: IpcServer._handle and GateDispatcher.on_frame, one frame at a time.

\* Handling begins with store_event, whose failure is logged and ignored. An event frame is then
\* done with; a request goes on to decide().
HandleFrame(frame) ==
    \E ok \in BOOLEAN :
        /\ stored' = IF ok THEN Append(stored, frame) ELSE stored
        /\ srv' = IF frame.kind = "end" THEN Idle
                  ELSE [stage |-> "decide", call |-> frame.call, stored |-> ok]

\* read_frame, and on_frame up to decide().
ReadFrame ==
    /\ connected
    /\ srv = Idle
    /\ toAuditor # << >>
    /\ HandleFrame(Head(toAuditor))
    /\ toAuditor' = Tail(toAuditor)
    /\ UNCHANGED <<sdkVars, toHarness, connected, decided, gateRows>>

\* decide(): an OPA failure is a DENY; a failing budget or PII check raises, see ConnectionDown.
Decide ==
    /\ srv.stage = "decide"
    /\ \E d \in Decisions : decided' = [decided EXCEPT ![srv.call] = d]
    /\ srv' = [srv EXCEPT !.stage = "reply"]
    /\ UNCHANGED <<sdkVars, toAuditor, toHarness, connected, stored, gateRows>>

\* store_gate_decision, only for a stored event and with its failure ignored; then the response.
Reply ==
    /\ srv.stage = "reply"
    /\ \/ srv.stored /\ gateRows' = gateRows \cup {<<srv.call, decided[srv.call]>>}
       \/ UNCHANGED gateRows
    /\ toHarness' = Append(toHarness, [call |-> srv.call, torn |-> FALSE,
                                       decision |-> decided[srv.call]])
    /\ srv' = Idle
    /\ UNCHANGED <<sdkVars, toAuditor, connected, stored, decided>>

\* The auditor dies, a handler raises, or the connection is cut: frames not read by the auditor are
\* gone; responses already sent may still arrive.
ConnectionDown ==
    /\ connected
    /\ connected' = FALSE
    /\ toAuditor' = << >>
    /\ srv' = Idle
    /\ \/ UNCHANGED toHarness
       \/ toHarness' = << >>
    /\ UNCHANGED <<sdkVars, stored, decided, gateRows>>

------------------------------------------------------------------------------

Sdk(c) ==
    \/ StartCall(c)
    \/ TakeLock(c)
    \/ WriteRequest(c)
    \/ TakeAnswer(c)
    \/ Timeout(c)
    \/ ReadTornFrame(c)
    \/ ReadEof(c)
    \/ FinishBody(c)
    \/ WriteEnd(c)

Server == ReadFrame \/ Decide \/ Reply

Ended == {"done", "denied", "failed"}

\* The run is over when every call has ended.
Terminated == (\A c \in ToolCalls : sdkPc[c] \in Ended) /\ UNCHANGED gateVars

GateNext == (\E c \in ToolCalls : Sdk(c)) \/ Server \/ ConnectionDown \/ Terminated

GateSpec == GateInit /\ [][GateNext]_gateVars

\* A coroutine that can go on goes on; a wait that can time out ends; asyncio.Lock wakes its waiters
\* in turn (strong fairness). Starting a call is the agent's choice.
SdkFairness == \A c \in ToolCalls :
    /\ SF_gateVars(TakeLock(c))
    /\ WF_gateVars(WriteRequest(c))
    /\ WF_gateVars(TakeAnswer(c) \/ Timeout(c) \/ ReadTornFrame(c) \/ ReadEof(c))
    /\ WF_gateVars(FinishBody(c))
    /\ WF_gateVars(WriteEnd(c))

\* Nothing is assumed of the auditor: it may stop reading or answering for good, and stay connected.
GateFairSpec == GateSpec /\ SdkFairness

------------------------------------------------------------------------------

Frames == [kind : {"req", "end"}, call : ToolCalls]

GateTypeOK ==
    /\ sdkPc \in [ToolCalls -> {"new", "reqLock", "reqWrite", "await", "run", "endLock", "endWrite",
                             "denyLock", "denyWrite"} \cup Ended]
    /\ sdkLock \in ToolCalls \cup {NoCall}
    /\ toAuditor \in Seq(Frames)
    /\ Len(toAuditor) <= MaxBuffer
    /\ toHarness \in Seq([call : ToolCalls, torn : BOOLEAN, decision : Decisions])
    /\ connected \in BOOLEAN
    /\ srv \in {Idle} \cup [stage : {"decide", "reply"}, call : ToolCalls, stored : BOOLEAN]
    /\ stored \in Seq(Frames)
    /\ decided \in [ToolCalls -> Decisions \cup {NoCall}]
    /\ gateRows \subseteq ToolCalls \X Decisions
    /\ ran \subseteq ToolCalls
    /\ answerOf \in [ToolCalls -> ToolCalls \cup {NoCall}]
    /\ timedOut \subseteq ToolCalls

\* As long as no call timed out, the lock alone keeps answers and requests together: every call takes
\* its own answer. Afterwards a call may take another call's answer, but no answer is taken twice, and
\* a call that timed out never takes one.
AnswerSource ==
    \A c \in ToolCalls : answerOf[c] # NoCall =>
        /\ answerOf[c] = c \/ timedOut # {}
        /\ c \notin timedOut
        /\ \A d \in ToolCalls \ {c} : answerOf[d] # answerOf[c]

\* A body runs only on a permission the auditor gave: to this call, or to a call that timed out; and
\* each answer is taken by one call at most.
RunsOnPermission ==
    /\ GateTypeOK
    /\ AnswerSource
    /\ \A c \in ran : answerOf[c] # NoCall /\ decided[answerOf[c]] \in {"ALLOW", "CONFIRM"}

\* A writer that holds the lock is in drain(): the auditor is connected and has stopped reading.
Stalled ==
    /\ connected
    /\ Len(toAuditor) = MaxBuffer
    /\ sdkLock # NoCall /\ sdkPc[sdkLock] \in {"reqWrite", "denyWrite", "endWrite"}

\* Nobody waits for ever for the lock or for an answer, of an auditor that is slow, silent, broken or
\* gone. What ends no call is a writer that is stalled for ever: no timeout covers drain(), so one
\* stalled writer is the only way in which a call, its own or another that waits for its lock, hangs.
CallEnds == <>[]Stalled \/ \A c \in ToolCalls : sdkPc[c] = "reqLock" ~> sdkPc[c] \in Ended

\* What the SDK's docstring promises: within the timeout a call has its decision, and an auditor that
\* cannot be reached is a DENY. So every call ends, with nothing assumed of the auditor.
CallEndsAlways == \A c \in ToolCalls : sdkPc[c] = "reqLock" ~> sdkPc[c] \in Ended

\* What the SDK's docstring promises: a call the auditor denied does not run.
DeniedCallDoesNotRun == \A c \in ran : decided[c] # "DENY"
==============================================================================
