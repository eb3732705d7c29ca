-------------------------- MODULE TelemetryGateProofs --------------------------
(***************************************************************************)
(* For any number of tool calls and any buffer: a body runs only on a      *)
(* permission the auditor gave, no answer is taken twice, and as long as   *)
(* no wait timed out every call takes its own answer.                      *)
(*                                                                         *)
(* The argument: a call has one request, which is in one place: not yet    *)
(* written, on its way to the auditor, being served, on its way back,      *)
(* taken by a call, or lost.  The decision of a call is taken while its    *)
(* request is being served, so an answer on its way or taken still tells   *)
(* it.  The lock lets one call at a time be between writing and reading;   *)
(* as long as none gave up, what is on its way is that call's.             *)
(***************************************************************************)
EXTENDS TelemetryGate, SequenceTheorems, TLAPS

Responses == [call : ToolCalls, torn : BOOLEAN, decision : Decisions]
Served == [stage : {"decide", "reply"}, call : ToolCalls, stored : BOOLEAN]
Labels == {"new", "reqLock", "reqWrite", "await", "run", "endLock", "endWrite", "denyLock", "denyWrite"} \cup Ended
Before == {"new", "reqLock", "reqWrite"}
Holding == {"reqWrite", "await", "denyWrite", "endWrite"}

\* Where the request of call c may be, and that it is there once.
Request(c) == [kind |-> "req", call |-> c]
Asked(q, c) == \E i \in DOMAIN q : q[i] = Request(c)
AskedOnce(q) == \A c \in ToolCalls : \A i, j \in DOMAIN q : q[i] = Request(c) /\ q[j] = Request(c) => i = j
Serving(v, c) == v.stage # "idle" /\ v.call = c
Answered(h, c) == \E i \in DOMAIN h : h[i].call = c
AnsweredOnce(h) == \A i, j \in DOMAIN h : h[i].call = h[j].call => i = j
Taken(a, c) == \E d \in ToolCalls : a[d] = c
TakenOnce(a) == \A c, d \in ToolCalls : a[c] # NoCall /\ a[c] = a[d] => c = d

\* Every answer on its way tells the decision; none has been read in part.
Truthful(h, dec) == \A i \in DOMAIN h : h[i].decision = dec[h[i].call]
Whole(h) == \A i \in DOMAIN h : h[i].torn = FALSE

SdkTypes ==
    /\ sdkPc \in [ToolCalls -> Labels] /\ sdkLock \in ToolCalls \cup {NoCall}
    /\ ran \subseteq ToolCalls /\ answerOf \in [ToolCalls -> ToolCalls \cup {NoCall}] /\ timedOut \subseteq ToolCalls
NetTypes ==
    /\ toAuditor \in Seq(Frames) /\ Len(toAuditor) <= MaxBuffer /\ toHarness \in Seq(Responses) /\ connected \in BOOLEAN
SrvTypes ==
    /\ srv \in {Idle} \cup Served /\ stored \in Seq(Frames)
    /\ decided \in [ToolCalls -> Decisions \cup {NoCall}] /\ gateRows \subseteq ToolCalls \X Decisions
Types == SdkTypes /\ NetTypes /\ SrvTypes

LockHeld == \A c \in ToolCalls : sdkPc[c] \in Holding => sdkLock = c
Phases == \A c \in ToolCalls :
    /\ sdkPc[c] \in Before => ~Asked(toAuditor, c) /\ ~Serving(srv, c) /\ ~Answered(toHarness, c) /\ ~Taken(answerOf, c)
    /\ sdkPc[c] \in Before \cup {"await"} => answerOf[c] = NoCall /\ c \notin timedOut /\ c \notin ran
    /\ answerOf[c] # NoCall => c \notin timedOut
OnePlace == \A c \in ToolCalls :
    /\ Asked(toAuditor, c) => ~Serving(srv, c) /\ ~Answered(toHarness, c) /\ ~Taken(answerOf, c)
    /\ Serving(srv, c) => ~Answered(toHarness, c) /\ ~Taken(answerOf, c)
    /\ Answered(toHarness, c) => ~Taken(answerOf, c)
Once == AskedOnce(toAuditor) /\ AnsweredOnce(toHarness) /\ TakenOnce(answerOf)
Down == ~connected => toAuditor = << >> /\ srv = Idle
Telling ==
    /\ Truthful(toHarness, decided)
    /\ srv.stage = "reply" => decided[srv.call] \in Decisions
    /\ \A c \in ran : answerOf[c] # NoCall /\ decided[answerOf[c]] \in {"ALLOW", "CONFIRM"}

\* Without a timeout what is on its way belongs to the call that waits.
OnTime == timedOut = {} =>
    /\ Whole(toHarness)
    /\ \A c \in ToolCalls :
         /\ Asked(toAuditor, c) \/ Serving(srv, c) \/ Answered(toHarness, c) => sdkPc[c] = "await"
         /\ answerOf[c] # NoCall => answerOf[c] = c

Placed == Phases /\ OnePlace /\ Once
IInv == Types /\ LockHeld /\ Placed /\ Down /\ Telling /\ OnTime

LEMMA Nones == NoCall \notin ToolCalls /\ NoCall \notin Decisions /\ MaxBuffer \in Nat /\ MaxBuffer > 0
  BY NoCallAssumption, MaxBufferAssumption

------------------------------------------------------------------------------
\* The two streams.

\* A frame is written to the auditor.
LEMMA WriteFrame ==
    ASSUME NEW q \in Seq(Frames), NEW f \in Frames, AskedOnce(q), \A c \in ToolCalls : f = Request(c) => ~Asked(q, c)
    PROVE  /\ Append(q, f) \in Seq(Frames) /\ Len(Append(q, f)) = Len(q) + 1 /\ AskedOnce(Append(q, f))
           /\ \A c \in ToolCalls : Asked(Append(q, f), c) <=> Asked(q, c) \/ f = Request(c)
<1>1. PICK z : z = Append(q, f)
  OBVIOUS
<1>2. /\ z \in Seq(Frames) /\ Len(z) = Len(q) + 1 /\ DOMAIN z = 1 .. Len(q) + 1 /\ DOMAIN q = 1 .. Len(q) /\ Len(q) \in Nat
      /\ \A i \in 1 .. Len(q) : z[i] = q[i]
      /\ z[Len(q) + 1] = f
  BY <1>1
<1>3. \A i \in DOMAIN z : (i \in DOMAIN q /\ z[i] = q[i]) \/ i = Len(q) + 1
  BY <1>2
<1>4. \A i \in DOMAIN q : i \in DOMAIN z /\ z[i] = q[i]
  BY <1>2
<1>5. Len(q) + 1 \in DOMAIN z
  BY <1>2
<1>6. \A c \in ToolCalls : Asked(z, c) <=> Asked(q, c) \/ f = Request(c)
  <2> TAKE c \in ToolCalls
  <2>1. PICK req : req = Request(c)
    OBVIOUS
  <2> QED BY <1>2, <1>3, <1>4, <1>5, <2>1 DEF Asked
<1>7. AskedOnce(z)
  <2> SUFFICES ASSUME NEW c \in ToolCalls, NEW i \in DOMAIN z, NEW j \in DOMAIN z, z[i] = Request(c), z[j] = Request(c)
               PROVE i = j
    BY DEF AskedOnce
  <2>1. CASE f = Request(c)
    <3>1. \A k \in DOMAIN q : q[k] # Request(c)
      BY <2>1 DEF Asked
    <3> QED BY <1>3, <3>1
  <2>2. CASE f # Request(c)
    <3>1. i # Len(q) + 1 /\ j # Len(q) + 1
      BY <1>2, <2>2
    <3>2. i \in DOMAIN q /\ q[i] = Request(c) /\ j \in DOMAIN q /\ q[j] = Request(c)
      BY <1>3, <3>1
    <3> QED BY <3>2 DEF AskedOnce
  <2> QED BY <2>1, <2>2
<1> QED BY <1>1, <1>2, <1>6, <1>7

\* The rest of a stream.
LEMMA Rest ==
    ASSUME NEW S, NEW s \in Seq(S), s # << >>
    PROVE  /\ Tail(s) \in Seq(S) /\ Len(Tail(s)) < Len(s) /\ Head(s) \in S /\ 1 \in DOMAIN s /\ Head(s) = s[1]
           /\ \A i \in DOMAIN Tail(s) : i + 1 \in DOMAIN s /\ i \in Int /\ i + 1 # 1 /\ Tail(s)[i] = s[i + 1]
           /\ \A i \in DOMAIN s : i # 1 => \E j \in DOMAIN Tail(s) : i = j + 1
<1>1. /\ Tail(s) \in Seq(S) /\ Len(Tail(s)) = Len(s) - 1 /\ Len(s) \in Nat /\ Len(s) > 0 /\ Head(s) = s[1]
      /\ \A i \in 1 .. Len(Tail(s)) : Tail(s)[i] = s[i + 1]
  BY HeadTailProperties
<1>2. DOMAIN s = 1 .. Len(s) /\ DOMAIN Tail(s) = 1 .. Len(s) - 1
  BY <1>1
<1>3. \A i \in DOMAIN s : i # 1 => i - 1 \in DOMAIN Tail(s) /\ i = (i - 1) + 1
  BY <1>1, <1>2
<1> QED BY <1>1, <1>2, <1>3

\* A frame is read by the auditor.
LEMMA FrameRead ==
    ASSUME NEW q \in Seq(Frames), q # << >>, AskedOnce(q)
    PROVE  /\ Tail(q) \in Seq(Frames) /\ Len(Tail(q)) < Len(q) /\ AskedOnce(Tail(q)) /\ Head(q) \in Frames
           /\ \A c \in ToolCalls : Asked(Tail(q), c) <=> Asked(q, c) /\ Head(q) # Request(c)
           /\ \A c \in ToolCalls : Head(q) = Request(c) => Asked(q, c)
<1>1. PICK z : z = Tail(q)
  OBVIOUS
<1>2. /\ z \in Seq(Frames) /\ Len(z) < Len(q) /\ Head(q) \in Frames /\ 1 \in DOMAIN q /\ Head(q) = q[1]
      /\ \A i \in DOMAIN z : i + 1 \in DOMAIN q /\ i \in Int /\ i + 1 # 1 /\ z[i] = q[i + 1]
      /\ \A i \in DOMAIN q : i # 1 => \E j \in DOMAIN z : i = j + 1
  BY <1>1, Rest
<1>3. ASSUME NEW c \in ToolCalls PROVE Asked(z, c) <=> Asked(q, c) /\ Head(q) # Request(c)
  <2>1. PICK req : req = Request(c)
    OBVIOUS
  <2>2. ASSUME NEW i \in DOMAIN q, NEW j \in DOMAIN q, q[i] = req, q[j] = req PROVE i = j
    BY <2>1, <2>2 DEF AskedOnce
  <2> QED BY <1>2, <2>1, <2>2 DEF Asked
<1>4. AskedOnce(z)
  <2> SUFFICES ASSUME NEW c \in ToolCalls, NEW i \in DOMAIN z, NEW j \in DOMAIN z, z[i] = Request(c), z[j] = Request(c)
               PROVE i = j
    BY DEF AskedOnce
  <2>1. i + 1 = j + 1
    BY <1>2 DEF AskedOnce
  <2> QED BY <1>2, <2>1
<1> QED BY <1>1, <1>2, <1>3, <1>4 DEF Asked

\* An answer is written.
LEMMA WriteAnswer ==
    ASSUME NEW h \in Seq(Responses), NEW a \in Responses, AnsweredOnce(h), ~Answered(h, a.call),
           NEW dec, Truthful(h, dec), a.decision = dec[a.call], a.torn = FALSE
    PROVE  /\ Append(h, a) \in Seq(Responses) /\ AnsweredOnce(Append(h, a)) /\ Truthful(Append(h, a), dec)
           /\ \A c \in ToolCalls : Answered(Append(h, a), c) <=> Answered(h, c) \/ c = a.call
           /\ Whole(h) => Whole(Append(h, a))
<1>1. PICK z : z = Append(h, a)
  OBVIOUS
<1>2. /\ z \in Seq(Responses) /\ DOMAIN z = 1 .. Len(h) + 1 /\ DOMAIN h = 1 .. Len(h) /\ Len(h) \in Nat
      /\ \A i \in 1 .. Len(h) : z[i] = h[i]
      /\ z[Len(h) + 1] = a
  BY <1>1
<1>3. PICK last : last = Len(h) + 1
  OBVIOUS
<1>4. /\ \A i \in DOMAIN z : (i \in DOMAIN h /\ z[i] = h[i]) \/ i = last
      /\ \A i \in DOMAIN h : i \in DOMAIN z /\ z[i] = h[i]
      /\ last \in DOMAIN z /\ z[last] = a
  BY <1>2, <1>3
<1>5. \A c \in ToolCalls : Answered(z, c) <=> Answered(h, c) \/ c = a.call
  BY <1>4 DEF Answered
<1>6. AnsweredOnce(z)
  BY <1>4 DEF AnsweredOnce, Answered
<1>7. Truthful(z, dec) /\ (Whole(h) => Whole(z))
  BY <1>4 DEF Truthful, Whole
<1> QED BY <1>1, <1>2, <1>5, <1>6, <1>7

\* An answer is read, or thrown away.
LEMMA AnswerRead ==
    ASSUME NEW h \in Seq(Responses), h # << >>, AnsweredOnce(h), NEW dec, Truthful(h, dec)
    PROVE  /\ Tail(h) \in Seq(Responses) /\ AnsweredOnce(Tail(h)) /\ Truthful(Tail(h), dec) /\ (Whole(h) => Whole(Tail(h)))
           /\ Head(h) \in Responses /\ Answered(h, Head(h).call) /\ Head(h).decision = dec[Head(h).call]
           /\ Whole(h) => Head(h).torn = FALSE
           /\ \A c \in ToolCalls : Answered(Tail(h), c) <=> Answered(h, c) /\ c # Head(h).call
<1>1. PICK z : z = Tail(h)
  OBVIOUS
<1>2. /\ z \in Seq(Responses) /\ Head(h) \in Responses /\ 1 \in DOMAIN h /\ Head(h) = h[1]
      /\ \A i \in DOMAIN z : i + 1 \in DOMAIN h /\ i \in Int /\ i + 1 # 1 /\ z[i] = h[i + 1]
      /\ \A i \in DOMAIN h : i # 1 => \E j \in DOMAIN z : i = j + 1
  BY <1>1, Rest
<1>3. ASSUME NEW c \in ToolCalls PROVE Answered(z, c) <=> Answered(h, c) /\ c # Head(h).call
  <2>1. ASSUME Answered(z, c) PROVE Answered(h, c) /\ c # Head(h).call
    <3>1. PICK i \in DOMAIN z : z[i].call = c
      BY <2>1 DEF Answered
    <3>2. PICK m : m = i + 1
      OBVIOUS
    <3>3. m \in DOMAIN h /\ m # 1 /\ h[m].call = c
      BY <1>2, <3>1, <3>2
    <3>4. h[m].call # h[1].call
      BY <1>2, <3>3 DEF AnsweredOnce
    <3> QED BY <1>2, <3>3, <3>4 DEF Answered
  <2>2. ASSUME Answered(h, c), c # Head(h).call PROVE Answered(z, c)
    <3>1. PICK m \in DOMAIN h : h[m].call = c
      BY <2>2 DEF Answered
    <3>2. m # 1
      BY <1>2, <2>2, <3>1
    <3>3. PICK j \in DOMAIN z : m = j + 1
      BY <1>2, <3>2
    <3>4. z[j].call = c
      BY <1>2, <3>1, <3>3
    <3> QED BY <3>4 DEF Answered
  <2> QED BY <2>1, <2>2
<1>4. AnsweredOnce(z)
  <2> SUFFICES ASSUME NEW i \in DOMAIN z, NEW j \in DOMAIN z, z[i].call = z[j].call PROVE i = j
    BY DEF AnsweredOnce
  <2>1. PICK m \in DOMAIN h, n \in DOMAIN h : m = i + 1 /\ n = j + 1 /\ z[i] = h[m] /\ z[j] = h[n]
    BY <1>2
  <2>2. m = n
    BY <2>1 DEF AnsweredOnce
  <2>3. i \in Int /\ j \in Int
    BY <1>2
  <2> QED BY <2>1, <2>2, <2>3
<1>5. Truthful(z, dec) /\ (Whole(h) => Whole(z))
  BY <1>2 DEF Truthful, Whole
<1>6. Answered(h, Head(h).call) /\ Head(h).decision = dec[Head(h).call] /\ (Whole(h) => Head(h).torn = FALSE)
  BY <1>2 DEF Answered, Truthful, Whole
<1> QED BY <1>1, <1>2, <1>3, <1>4, <1>5, <1>6

\* The first answer is torn.
LEMMA AnswerTorn ==
    ASSUME NEW h \in Seq(Responses), h # << >>, AnsweredOnce(h), NEW dec, Truthful(h, dec)
    PROVE  /\ [h EXCEPT ![1].torn = TRUE] \in Seq(Responses) /\ AnsweredOnce([h EXCEPT ![1].torn = TRUE])
           /\ Truthful([h EXCEPT ![1].torn = TRUE], dec)
           /\ \A c \in ToolCalls : Answered([h EXCEPT ![1].torn = TRUE], c) <=> Answered(h, c)
<1>1. 1 \in 1 .. Len(h) /\ DOMAIN h = 1 .. Len(h) /\ h[1] \in Responses
  BY Rest
<1>2. PICK a : a = [h[1] EXCEPT !.torn = TRUE]
  OBVIOUS
<1>3. a \in Responses /\ a.call = h[1].call /\ a.decision = h[1].decision
  BY <1>1, <1>2 DEF Responses
<1>4. PICK z : z = [h EXCEPT ![1] = a]
  OBVIOUS
<1>5. z = [h EXCEPT ![1].torn = TRUE]
  BY <1>2, <1>4
<1>6. z \in Seq(Responses) /\ DOMAIN z = DOMAIN h /\ \A i \in DOMAIN h : z[i].call = h[i].call /\ z[i].decision = h[i].decision
  <2>1. z \in Seq(Responses) /\ Len(z) = Len(h) /\ \A j \in 1 .. Len(h) : z[j] = IF j = 1 THEN a ELSE h[j]
    BY <1>1, <1>3, <1>4, ExceptSeq
  <2> QED BY <1>1, <1>3, <2>1
<1> QED BY <1>5, <1>6 DEF AnsweredOnce, Truthful, Answered

------------------------------------------------------------------------------
\* The steps.

LEMMA InitInv == GateInit => IInv
<1> SUFFICES ASSUME GateInit PROVE IInv
  OBVIOUS
<1> USE Nones DEF GateInit
<1>1. SdkTypes /\ SrvTypes
  BY DEF SdkTypes, SrvTypes, Labels
<1>2. NetTypes
  BY DEF NetTypes
<1>3. LockHeld
  BY DEF LockHeld, Holding
<1>4. srv.stage = "idle" /\ \A c \in ToolCalls : ~Asked(toAuditor, c) /\ ~Serving(srv, c) /\ ~Answered(toHarness, c)
  BY DEF Idle, Asked, Serving, Answered
<1>5. Phases /\ OnePlace
  BY <1>4 DEF Phases, OnePlace, Taken
<1>6. Once
  BY DEF Once, AskedOnce, AnsweredOnce, TakenOnce
<1>7. Down /\ Telling
  BY <1>4 DEF Down, Telling, Truthful
<1>8. OnTime
  BY <1>4 DEF OnTime, Whole
<1> QED BY <1>1, <1>2, <1>3, <1>5, <1>6, <1>7, <1>8 DEF IInv, Types, Placed

\* A step of call c that writes no request and takes no answer, but may lose one.
LEMMA Aside ==
    ASSUME IInv, NEW c \in ToolCalls, NEW l \in Labels, sdkPc' = [sdkPc EXCEPT ![c] = l], l # "await", l \in Before => sdkPc[c] \in Before,
           UNCHANGED <<srv, answerOf, ran, decided>>,
           timedOut \subseteq timedOut', timedOut' \subseteq timedOut \cup {c}, timedOut' # timedOut => sdkPc[c] = "await",
           AskedOnce(toAuditor'), AnsweredOnce(toHarness'), Truthful(toHarness', decided),
           \A d \in ToolCalls : Asked(toAuditor', d) <=> Asked(toAuditor, d),
           \A d \in ToolCalls : Answered(toHarness', d) => Answered(toHarness, d),
           timedOut' = {} /\ Whole(toHarness) => Whole(toHarness'),
           timedOut' = {} /\ sdkPc[c] = "await" => ~Asked(toAuditor, c) /\ ~Serving(srv, c) /\ ~Answered(toHarness', c)
    PROVE  Placed' /\ Telling' /\ OnTime'
<1>1. sdkPc'[c] = l /\ \A d \in ToolCalls : d # c => sdkPc'[d] = sdkPc[d]
  BY DEF IInv, Types, SdkTypes
<1>2. Phases'
  <2> SUFFICES ASSUME NEW d \in ToolCalls
      PROVE /\ sdkPc'[d] \in Before => ~Asked(toAuditor', d) /\ ~Serving(srv', d) /\ ~Answered(toHarness', d) /\ ~Taken(answerOf', d)
            /\ sdkPc'[d] \in Before \cup {"await"} => answerOf'[d] = NoCall /\ d \notin timedOut' /\ d \notin ran'
            /\ answerOf'[d] # NoCall => d \notin timedOut'
    BY DEF Phases
  <2>1. /\ sdkPc[d] \in Before => ~Asked(toAuditor, d) /\ ~Serving(srv, d) /\ ~Answered(toHarness, d) /\ ~Taken(answerOf, d)
        /\ sdkPc[d] \in Before \cup {"await"} => answerOf[d] = NoCall /\ d \notin timedOut /\ d \notin ran
        /\ answerOf[d] # NoCall => d \notin timedOut
    BY DEF IInv, Placed, Phases
  <2>2. CASE d = c
    BY <1>1, <2>1, <2>2 DEF Before
  <2>3. CASE d # c
    BY <1>1, <2>1, <2>3
  <2> QED BY <2>2, <2>3
<1>3. OnePlace'
  BY DEF IInv, Placed, OnePlace
<1>4. Once'
  BY DEF IInv, Placed, Once
<1>5. Telling'
  BY DEF IInv, Telling
<1>6. OnTime'
  <2> SUFFICES ASSUME timedOut' = {}
      PROVE /\ Whole(toHarness')
            /\ \A d \in ToolCalls : /\ Asked(toAuditor', d) \/ Serving(srv', d) \/ Answered(toHarness', d) => sdkPc'[d] = "await"
                                    /\ answerOf'[d] # NoCall => answerOf'[d] = d
    BY DEF OnTime
  <2>1. /\ Whole(toHarness)
        /\ \A d \in ToolCalls : /\ Asked(toAuditor, d) \/ Serving(srv, d) \/ Answered(toHarness, d) => sdkPc[d] = "await"
                                /\ answerOf[d] # NoCall => answerOf[d] = d
    BY DEF IInv, OnTime
  <2> QED BY <1>1, <2>1
<1> QED BY <1>2, <1>3, <1>4, <1>5, <1>6 DEF Placed

\* The types, the lock and the state of the connection are a matter of the step alone.
LEMMA StepsAlone ==
    ASSUME IInv, NEW c \in ToolCalls,
           StartCall(c) \/ TakeLock(c) \/ Timeout(c) \/ ReadTornFrame(c) \/ ReadEof(c) \/ FinishBody(c) \/ WriteEnd(c) \/ WriteRequest(c)
    PROVE  /\ SdkTypes' /\ SrvTypes' /\ LockHeld' /\ UNCHANGED <<connected, ran, answerOf, srv, stored, decided, gateRows>>
           /\ \E l \in Labels : sdkPc' = [sdkPc EXCEPT ![c] = l]
<1>1. UNCHANGED <<connected, ran, answerOf, srv, stored, decided, gateRows>>
  BY DEF StartCall, TakeLock, Timeout, ReadTornFrame, ReadEof, FinishBody, WriteEnd, WriteRequest, srvVars
<1>2. PICK l \in Labels : sdkPc' = [sdkPc EXCEPT ![c] = l]
  BY DEF StartCall, TakeLock, Timeout, ReadTornFrame, ReadEof, FinishBody, WriteEnd, WriteRequest, Goto, Labels, Ended
<1>3. sdkPc' \in [ToolCalls -> Labels] /\ sdkPc'[c] = l /\ \A d \in ToolCalls : d # c => sdkPc'[d] = sdkPc[d]
  BY <1>2 DEF IInv, Types, SdkTypes
<1>4. sdkLock' \in ToolCalls \cup {NoCall} /\ timedOut' \subseteq ToolCalls
  BY DEF IInv, Types, SdkTypes, StartCall, TakeLock, Timeout, ReadTornFrame, ReadEof, FinishBody, WriteEnd, WriteRequest
<1>5. SdkTypes' /\ SrvTypes'
  BY <1>1, <1>3, <1>4 DEF IInv, Types, SdkTypes, SrvTypes
<1>6. \/ sdkLock' = sdkLock /\ (l \in Holding => sdkPc[c] \in Holding)
      \/ sdkLock = NoCall /\ sdkLock' = c
      \/ sdkPc[c] \in Holding /\ l \notin Holding
  BY <1>2, <1>3 DEF IInv, Types, SdkTypes, StartCall, TakeLock, Timeout, ReadTornFrame, ReadEof, FinishBody, WriteEnd, WriteRequest,
                    Goto, Holding
<1>7. LockHeld'
  BY <1>3, <1>6, Nones DEF IInv, LockHeld
<1> QED BY <1>1, <1>2, <1>5, <1>7

LEMMA AsideInv ==
    ASSUME IInv, NEW c \in ToolCalls,
           StartCall(c) \/ TakeLock(c) \/ Timeout(c) \/ ReadTornFrame(c) \/ ReadEof(c) \/ FinishBody(c)
    PROVE  IInv'
<1>1. /\ SdkTypes' /\ SrvTypes' /\ LockHeld' /\ UNCHANGED <<connected, ran, answerOf, srv, stored, decided, gateRows>>
      /\ \E l \in Labels : sdkPc' = [sdkPc EXCEPT ![c] = l]
  BY StepsAlone
<1>2. toAuditor' = toAuditor
  BY DEF StartCall, TakeLock, Timeout, ReadTornFrame, ReadEof, FinishBody
<1>3. toHarness \in Seq(Responses) /\ AnsweredOnce(toHarness) /\ Truthful(toHarness, decided)
  BY DEF IInv, Types, NetTypes, Placed, Once, Telling
<1>4. /\ toHarness' \in Seq(Responses) /\ AnsweredOnce(toHarness') /\ Truthful(toHarness', decided)
      /\ \A d \in ToolCalls : Answered(toHarness', d) => Answered(toHarness, d)
  <2>1. CASE toHarness' = toHarness
    BY <1>3, <2>1
  <2>2. CASE toHarness # << >> /\ toHarness' = Tail(toHarness)
    BY <1>3, <2>2, AnswerRead
  <2>3. CASE toHarness # << >> /\ toHarness' = [toHarness EXCEPT ![1].torn = TRUE]
    <3>1. /\ [toHarness EXCEPT ![1].torn = TRUE] \in Seq(Responses) /\ AnsweredOnce([toHarness EXCEPT ![1].torn = TRUE])
          /\ Truthful([toHarness EXCEPT ![1].torn = TRUE], decided)
          /\ \A d \in ToolCalls : Answered([toHarness EXCEPT ![1].torn = TRUE], d) <=> Answered(toHarness, d)
      BY <1>3, <2>3, AnswerTorn
    <3> QED BY <2>3, <3>1
  <2> QED BY <2>1, <2>2, <2>3 DEF StartCall, TakeLock, Timeout, ReadTornFrame, ReadEof, FinishBody
<1>5. NetTypes' /\ Down'
  BY <1>1, <1>2, <1>4 DEF IInv, Types, NetTypes, Down
<1>6. PICK l \in Labels : sdkPc' = [sdkPc EXCEPT ![c] = l] /\ l # "await" /\ (l \in Before => sdkPc[c] \in Before)
  BY <1>1 DEF StartCall, TakeLock, Timeout, ReadTornFrame, ReadEof, FinishBody, Goto, Before, Labels, Ended
<1>7. timedOut \subseteq timedOut' /\ timedOut' \subseteq timedOut \cup {c} /\ (timedOut' # timedOut => sdkPc[c] = "await")
  BY DEF StartCall, TakeLock, Timeout, ReadTornFrame, ReadEof, FinishBody
<1>8. timedOut' = {} /\ Whole(toHarness) => Whole(toHarness')
  <2> SUFFICES ASSUME timedOut' = {}, Whole(toHarness) PROVE Whole(toHarness')
    OBVIOUS
  <2>1. ~Timeout(c)
    BY DEF Timeout
  <2>2. CASE ReadTornFrame(c)
    BY <1>3, <2>2, AnswerRead DEF ReadTornFrame
  <2> QED BY <2>1, <2>2 DEF StartCall, TakeLock, ReadEof, FinishBody
<1>9. ASSUME timedOut' = {}, sdkPc[c] = "await" PROVE ~Asked(toAuditor, c) /\ ~Serving(srv, c) /\ ~Answered(toHarness', c)
  <2>1. ~Timeout(c) /\ ~StartCall(c) /\ ~TakeLock(c) /\ ~FinishBody(c)
    BY <1>9 DEF Timeout, StartCall, TakeLock, FinishBody
  <2>2. ~ReadTornFrame(c)
    <3> SUFFICES ASSUME ReadTornFrame(c) PROVE FALSE
      OBVIOUS
    <3>1. timedOut = {} /\ toHarness # << >> /\ Head(toHarness).torn
      BY <1>9 DEF ReadTornFrame
    <3>2. Whole(toHarness)
      BY <3>1 DEF IInv, OnTime
    <3> QED BY <1>3, <3>1, <3>2, AnswerRead
  <2>3. ~connected /\ toHarness' = << >>
    BY <2>1, <2>2 DEF ReadEof
  <2>4. toAuditor = << >> /\ srv.stage = "idle"
    BY <2>3 DEF IInv, Down, Idle
  <2> QED BY <2>3, <2>4 DEF Asked, Serving, Answered
<1>10. AskedOnce(toAuditor)
  BY DEF IInv, Placed, Once
<1>11. Placed' /\ Telling' /\ OnTime'
  BY <1>1, <1>2, <1>4, <1>6, <1>7, <1>8, <1>9, <1>10, Aside
<1> QED BY <1>1, <1>5, <1>11 DEF IInv, Types

\* An end event is written: no request among it.
LEMMA WriteEndInv == ASSUME IInv, NEW c \in ToolCalls, WriteEnd(c) PROVE IInv'
<1>1. /\ SdkTypes' /\ SrvTypes' /\ LockHeld' /\ UNCHANGED <<connected, ran, answerOf, srv, stored, decided, gateRows>>
      /\ \E l \in Labels : sdkPc' = [sdkPc EXCEPT ![c] = l]
  BY StepsAlone
<1>2. UNCHANGED <<toHarness, timedOut>> /\ sdkPc[c] \in {"denyWrite", "endWrite"}
  BY DEF WriteEnd
<1>3. toAuditor \in Seq(Frames) /\ AskedOnce(toAuditor) /\ Len(toAuditor) <= MaxBuffer
  BY DEF IInv, Types, NetTypes, Placed, Once
<1>4. PICK f : f = [kind |-> "end", call |-> c]
  OBVIOUS
<1>5. f \in Frames /\ \A d \in ToolCalls : f # Request(d)
  BY <1>4 DEF Frames, Request
<1>6. /\ toAuditor' \in Seq(Frames) /\ Len(toAuditor') <= MaxBuffer /\ AskedOnce(toAuditor')
      /\ \A d \in ToolCalls : Asked(toAuditor', d) <=> Asked(toAuditor, d)
      /\ ~connected => toAuditor' = toAuditor
  <2>1. CASE toAuditor' = toAuditor
    BY <1>3, <2>1
  <2>2. CASE connected /\ Len(toAuditor) < MaxBuffer /\ toAuditor' = Append(toAuditor, f)
    <3>1. /\ Append(toAuditor, f) \in Seq(Frames) /\ Len(Append(toAuditor, f)) = Len(toAuditor) + 1 /\ AskedOnce(Append(toAuditor, f))
          /\ \A d \in ToolCalls : Asked(Append(toAuditor, f), d) <=> Asked(toAuditor, d) \/ f = Request(d)
      BY <1>3, <1>5, WriteFrame
    <3>2. Len(toAuditor) + 1 <= MaxBuffer
      BY <1>3, <2>2, Nones
    <3> QED BY <1>5, <2>2, <3>1, <3>2
  <2> QED BY <1>4, <2>1, <2>2 DEF WriteEnd
<1>7. NetTypes' /\ Down'
  BY <1>1, <1>2, <1>6 DEF IInv, Types, NetTypes, Down
<1>8. PICK l \in Labels : sdkPc' = [sdkPc EXCEPT ![c] = l] /\ l \in {"denied", "done"}
  BY DEF WriteEnd, Goto, Labels, Ended
<1>9. AnsweredOnce(toHarness) /\ Truthful(toHarness, decided)
  BY DEF IInv, Placed, Once, Telling
<1>10. l # "await" /\ l \notin Before
  BY <1>8 DEF Before
<1>11. Placed' /\ Telling' /\ OnTime'
  BY <1>1, <1>2, <1>6, <1>8, <1>9, <1>10, Aside
<1> QED BY <1>1, <1>7, <1>11 DEF IInv, Types

\* The request of c, which was nowhere, is on its way.
LEMMA WriteRequestInv == ASSUME IInv, NEW c \in ToolCalls, WriteRequest(c) PROVE IInv'
<1>1. /\ SdkTypes' /\ SrvTypes' /\ LockHeld' /\ UNCHANGED <<connected, ran, answerOf, srv, stored, decided, gateRows>>
      /\ \E l \in Labels : sdkPc' = [sdkPc EXCEPT ![c] = l]
  BY StepsAlone
<1>2. UNCHANGED <<toHarness, timedOut>> /\ sdkPc[c] = "reqWrite"
  BY DEF WriteRequest
<1>3. toAuditor \in Seq(Frames) /\ AskedOnce(toAuditor) /\ Len(toAuditor) <= MaxBuffer
  BY DEF IInv, Types, NetTypes, Placed, Once
<1>4. AnsweredOnce(toHarness) /\ Truthful(toHarness, decided)
  BY DEF IInv, Placed, Once, Telling
<1>5. CASE toAuditor' = toAuditor /\ sdkPc' = [sdkPc EXCEPT ![c] = "denyLock"]
  <2>1. NetTypes' /\ Down'
    BY <1>1, <1>2, <1>5 DEF IInv, Types, NetTypes, Down
  <2>2. "denyLock" \in Labels /\ "denyLock" \notin Before
    BY DEF Labels, Before
  <2>3. Placed' /\ Telling' /\ OnTime'
    BY <1>1, <1>2, <1>3, <1>4, <1>5, <2>2, Aside
  <2> QED BY <1>1, <2>1, <2>3 DEF IInv, Types
<1>6. CASE connected /\ Len(toAuditor) < MaxBuffer /\ toAuditor' = Append(toAuditor, Request(c)) /\ sdkPc' = [sdkPc EXCEPT ![c] = "await"]
  <2>1. /\ ~Asked(toAuditor, c) /\ ~Serving(srv, c) /\ ~Answered(toHarness, c) /\ ~Taken(answerOf, c)
        /\ answerOf[c] = NoCall /\ c \notin timedOut /\ c \notin ran
    BY <1>2 DEF IInv, Placed, Phases, Before
  <2>2. PICK f : f = Request(c)
    OBVIOUS
  <2>3. f \in Frames /\ \A d \in ToolCalls : f = Request(d) <=> d = c
    BY <2>2 DEF Frames, Request
  <2>4. /\ toAuditor' \in Seq(Frames) /\ Len(toAuditor') = Len(toAuditor) + 1 /\ AskedOnce(toAuditor')
        /\ \A d \in ToolCalls : Asked(toAuditor', d) <=> Asked(toAuditor, d) \/ d = c
    <3>1. /\ Append(toAuditor, f) \in Seq(Frames) /\ Len(Append(toAuditor, f)) = Len(toAuditor) + 1 /\ AskedOnce(Append(toAuditor, f))
          /\ \A d \in ToolCalls : Asked(Append(toAuditor, f), d) <=> Asked(toAuditor, d) \/ f = Request(d)
      BY <1>3, <2>1, <2>3, WriteFrame
    <3> QED BY <1>6, <2>2, <2>3, <3>1
  <2>5. NetTypes' /\ Down'
    <3>1. Len(toAuditor') <= MaxBuffer
      BY <1>3, <1>6, <2>4, Nones
    <3> QED BY <1>1, <1>2, <1>6, <2>4, <3>1 DEF IInv, Types, NetTypes, Down
  <2>6. sdkPc'[c] = "await" /\ \A d \in ToolCalls : d # c => sdkPc'[d] = sdkPc[d]
    BY <1>6 DEF IInv, Types, SdkTypes
  <2>7. Phases'
    BY <1>1, <1>2, <2>1, <2>4, <2>6 DEF IInv, Placed, Phases, Before
  <2>8. OnePlace'
    BY <1>1, <1>2, <2>1, <2>4 DEF IInv, Placed, OnePlace
  <2>9. Once' /\ Telling'
    BY <1>1, <1>2, <2>4 DEF IInv, Placed, Once, Telling
  <2>10. OnTime'
    BY <1>1, <1>2, <2>4, <2>6 DEF IInv, OnTime
  <2> QED BY <1>1, <2>5, <2>7, <2>8, <2>9, <2>10 DEF IInv, Types, Placed
<1> QED BY <1>5, <1>6 DEF WriteRequest, Request, Goto

\* The first answer is taken by c.
LEMMA TakeAnswerInv == ASSUME IInv, NEW c \in ToolCalls, TakeAnswer(c) PROVE IInv'
<1>1. /\ sdkPc[c] = "await" /\ toHarness # << >> /\ toHarness' = Tail(toHarness) /\ sdkLock' = NoCall
      /\ UNCHANGED <<timedOut, srv, stored, decided, gateRows, toAuditor, connected>>
  BY DEF TakeAnswer, srvVars
<1>2. PICK a : a = Head(toHarness)
  OBVIOUS
<1>3. toHarness \in Seq(Responses) /\ AnsweredOnce(toHarness) /\ Truthful(toHarness, decided)
  BY DEF IInv, Types, NetTypes, Placed, Once, Telling
<1>4. /\ toHarness' \in Seq(Responses) /\ AnsweredOnce(toHarness') /\ Truthful(toHarness', decided)
      /\ Whole(toHarness) => Whole(toHarness')
      /\ a \in Responses /\ Answered(toHarness, a.call) /\ a.decision = decided[a.call]
      /\ \A d \in ToolCalls : Answered(toHarness', d) <=> Answered(toHarness, d) /\ d # a.call
  BY <1>1, <1>2, <1>3, AnswerRead
<1>5. PICK e \in ToolCalls : e = a.call
  BY <1>4 DEF Responses
<1>6. a.decision \in Decisions /\ decided[e] = a.decision
  BY <1>4, <1>5 DEF Responses
<1>7. answerOf' = [answerOf EXCEPT ![c] = e]
  BY <1>2, <1>5 DEF TakeAnswer
<1>8. answerOf' \in [ToolCalls -> ToolCalls \cup {NoCall}] /\ answerOf'[c] = e /\ \A d \in ToolCalls : d # c => answerOf'[d] = answerOf[d]
  BY <1>7 DEF IInv, Types, SdkTypes
<1>9. PICK l \in {"denyLock", "run"} :
        sdkPc' = [sdkPc EXCEPT ![c] = l] /\ IF a.decision = "DENY" THEN l = "denyLock" /\ ran' = ran ELSE l = "run" /\ ran' = ran \cup {c}
  BY <1>2 DEF TakeAnswer, Goto
<1>10. /\ sdkPc' \in [ToolCalls -> Labels] /\ sdkPc'[c] = l /\ \A d \in ToolCalls : d # c => sdkPc'[d] = sdkPc[d]
       /\ l \notin Before /\ l \notin Holding /\ l # "await" /\ ran \subseteq ran' /\ ran' \subseteq ran \cup {c}
  BY <1>9 DEF IInv, Types, SdkTypes, Labels, Before, Holding
<1>11. SdkTypes' /\ NetTypes' /\ SrvTypes' /\ Down'
  BY <1>1, <1>4, <1>8, <1>10 DEF IInv, Types, SdkTypes, NetTypes, SrvTypes, Down
<1>12. LockHeld'
  BY <1>1, <1>10 DEF IInv, LockHeld, Holding
<1>13. answerOf[c] = NoCall /\ c \notin timedOut /\ c \notin ran
  BY <1>1 DEF IInv, Placed, Phases
<1>14. ~Asked(toAuditor, e) /\ ~Serving(srv, e) /\ ~Taken(answerOf, e)
  BY <1>4, <1>5 DEF IInv, Placed, OnePlace
<1>15. \A d \in ToolCalls : Taken(answerOf', d) <=> Taken(answerOf, d) \/ d = e
  BY <1>8, <1>13, Nones DEF Taken
<1>16. sdkPc[e] \notin Before
  BY <1>4, <1>5 DEF IInv, Placed, Phases
<1>17. Phases'
  <2> SUFFICES ASSUME NEW d \in ToolCalls
      PROVE /\ sdkPc'[d] \in Before => ~Asked(toAuditor', d) /\ ~Serving(srv', d) /\ ~Answered(toHarness', d) /\ ~Taken(answerOf', d)
            /\ sdkPc'[d] \in Before \cup {"await"} => answerOf'[d] = NoCall /\ d \notin timedOut' /\ d \notin ran'
            /\ answerOf'[d] # NoCall => d \notin timedOut'
    BY DEF Phases
  <2>1. /\ sdkPc[d] \in Before => ~Asked(toAuditor, d) /\ ~Serving(srv, d) /\ ~Answered(toHarness, d) /\ ~Taken(answerOf, d)
        /\ sdkPc[d] \in Before \cup {"await"} => answerOf[d] = NoCall /\ d \notin timedOut /\ d \notin ran
        /\ answerOf[d] # NoCall => d \notin timedOut
    BY DEF IInv, Placed, Phases
  <2>2. CASE d = c
    BY <1>1, <1>10, <1>13, <2>2
  <2>3. CASE d # c
    BY <1>1, <1>4, <1>8, <1>10, <1>15, <1>16, <2>1, <2>3
  <2> QED BY <2>2, <2>3
<1>18. OnePlace'
  BY <1>1, <1>4, <1>5, <1>14, <1>15 DEF IInv, Placed, OnePlace
<1>19. Once'
  <2>1. TakenOnce(answerOf')
    BY <1>8, <1>13, <1>14 DEF IInv, Placed, Once, TakenOnce, Taken
  <2> QED BY <1>1, <1>4, <2>1 DEF IInv, Placed, Once
<1>20. Telling'
  <2>1. c \in ran' => decided[e] \in {"ALLOW", "CONFIRM"}
    BY <1>6, <1>9, <1>13 DEF Decisions
  <2>2. ASSUME NEW d \in ran' PROVE answerOf'[d] # NoCall /\ decided'[answerOf'[d]] \in {"ALLOW", "CONFIRM"}
    <3>1. d \in ToolCalls
      BY <1>11 DEF SdkTypes
    <3>2. CASE d = c
      BY <1>1, <1>8, <2>1, <3>2, Nones
    <3>3. CASE d # c
      BY <1>1, <1>8, <1>10, <3>1, <3>3 DEF IInv, Telling
    <3> QED BY <3>2, <3>3
  <2> QED BY <1>1, <1>4, <2>2 DEF IInv, Telling
<1>21. OnTime'
  <2> SUFFICES ASSUME timedOut' = {}
      PROVE /\ Whole(toHarness')
            /\ \A d \in ToolCalls : /\ Asked(toAuditor', d) \/ Serving(srv', d) \/ Answered(toHarness', d) => sdkPc'[d] = "await"
                                    /\ answerOf'[d] # NoCall => answerOf'[d] = d
    BY DEF OnTime
  <2>1. /\ Whole(toHarness)
        /\ \A d \in ToolCalls : /\ Asked(toAuditor, d) \/ Serving(srv, d) \/ Answered(toHarness, d) => sdkPc[d] = "await"
                                /\ answerOf[d] # NoCall => answerOf[d] = d
    BY <1>1 DEF IInv, OnTime
  <2>2. sdkPc[e] = "await"
    BY <1>4, <1>5, <2>1
  <2>3. e = c
    BY <1>1, <2>2 DEF IInv, LockHeld, Holding
  <2> QED BY <1>1, <1>4, <1>5, <1>8, <1>10, <1>14, <2>1, <2>3
<1> QED BY <1>11, <1>12, <1>17, <1>18, <1>19, <1>20, <1>21 DEF IInv, Types, Placed

\* The server's steps leave the harness alone.
LEMMA ServerAlone ==
    ASSUME IInv, UNCHANGED sdkVars
    PROVE  SdkTypes' /\ LockHeld' /\ UNCHANGED <<sdkPc, sdkLock, ran, answerOf, timedOut>>
<1>1. UNCHANGED <<sdkPc, sdkLock, ran, answerOf, timedOut>>
  BY DEF sdkVars
<1> QED BY <1>1 DEF IInv, Types, SdkTypes, LockHeld

\* A request is taken from the stream and served, or another event stored.
LEMMA ReadFrameInv == ASSUME IInv, ReadFrame PROVE IInv'
<1>1. /\ connected /\ srv = Idle /\ toAuditor # << >> /\ toAuditor' = Tail(toAuditor)
      /\ UNCHANGED <<toHarness, connected, decided, gateRows>> /\ UNCHANGED sdkVars
  BY DEF ReadFrame
<1>2. SdkTypes' /\ LockHeld' /\ UNCHANGED <<sdkPc, sdkLock, ran, answerOf, timedOut>>
  BY <1>1, ServerAlone
<1>3. PICK f : f = Head(toAuditor)
  OBVIOUS
<1>4. toAuditor \in Seq(Frames) /\ AskedOnce(toAuditor) /\ Len(toAuditor) <= MaxBuffer
  BY DEF IInv, Types, NetTypes, Placed, Once
<1>5. /\ toAuditor' \in Seq(Frames) /\ Len(toAuditor') < Len(toAuditor) /\ AskedOnce(toAuditor') /\ f \in Frames
      /\ \A c \in ToolCalls : Asked(toAuditor', c) <=> Asked(toAuditor, c) /\ f # Request(c)
      /\ \A c \in ToolCalls : f = Request(c) => Asked(toAuditor, c)
  BY <1>1, <1>3, <1>4, FrameRead
<1>6. PICK ok \in BOOLEAN :
        /\ stored' = IF ok THEN Append(stored, f) ELSE stored
        /\ srv' = IF f.kind = "end" THEN Idle ELSE [stage |-> "decide", call |-> f.call, stored |-> ok]
  BY <1>3 DEF ReadFrame, HandleFrame
<1>7. stored' \in Seq(Frames) /\ f.call \in ToolCalls /\ f.kind \in {"req", "end"}
  <2>1. stored \in Seq(Frames) /\ Append(stored, f) \in Seq(Frames)
    BY <1>5 DEF IInv, Types, SrvTypes
  <2> QED BY <1>5, <1>6, <2>1 DEF Frames
<1>8. srv' \in {Idle} \cup Served /\ srv'.stage # "reply" /\ \A c \in ToolCalls : Serving(srv', c) => f = Request(c)
  <2>1. CASE f.kind = "end"
    BY <1>6, <2>1 DEF Idle, Serving
  <2>2. CASE f.kind = "req"
    <3>1. f = Request(f.call)
      BY <1>5, <2>2 DEF Frames, Request
    <3>2. srv' = [stage |-> "decide", call |-> f.call, stored |-> ok]
      BY <1>6, <2>2
    <3> QED BY <1>7, <3>1, <3>2 DEF Served, Serving
  <2> QED BY <1>7, <2>1, <2>2
<1>9. NetTypes' /\ SrvTypes' /\ Down'
  <2>1. Len(toAuditor') <= MaxBuffer
    BY <1>4, <1>5, Nones
  <2> QED BY <1>1, <1>5, <1>7, <1>8, <2>1 DEF IInv, Types, NetTypes, SrvTypes, Down
<1>10. Phases'
  BY <1>1, <1>2, <1>5, <1>8 DEF IInv, Placed, Phases
<1>11. OnePlace'
  BY <1>1, <1>2, <1>5, <1>8 DEF IInv, Placed, OnePlace
<1>12. Once' /\ Telling'
  BY <1>1, <1>2, <1>5, <1>8 DEF IInv, Placed, Once, Telling
<1>13. OnTime'
  BY <1>1, <1>2, <1>5, <1>8 DEF IInv, OnTime
<1> QED BY <1>2, <1>9, <1>10, <1>11, <1>12, <1>13 DEF IInv, Types, Placed

\* The decision of the request being served is taken: no answer tells it yet.
LEMMA DecideInv == ASSUME IInv, Decide PROVE IInv'
<1>1. srv.stage = "decide" /\ srv' = [srv EXCEPT !.stage = "reply"]
      /\ UNCHANGED <<toAuditor, toHarness, connected, stored, gateRows>> /\ UNCHANGED sdkVars
  BY DEF Decide
<1>2. SdkTypes' /\ LockHeld' /\ UNCHANGED <<sdkPc, sdkLock, ran, answerOf, timedOut>>
  BY <1>1, ServerAlone
<1>3. srv \in Served
  BY <1>1 DEF IInv, Types, SrvTypes, Idle
<1>4. PICK c \in ToolCalls : c = srv.call
  BY <1>3 DEF Served
<1>5. srv' \in Served /\ srv'.stage = "reply" /\ srv'.call = c /\ srv # Idle
  BY <1>1, <1>3, <1>4 DEF Served, Idle
<1>6. PICK d \in Decisions : decided' = [decided EXCEPT ![c] = d]
  BY <1>4 DEF Decide
<1>7. decided' \in [ToolCalls -> Decisions \cup {NoCall}] /\ decided'[c] = d /\ \A e \in ToolCalls : e # c => decided'[e] = decided[e]
  BY <1>6 DEF IInv, Types, SrvTypes
<1>8. Serving(srv, c) /\ \A e \in ToolCalls : Serving(srv', e) <=> Serving(srv, e)
  BY <1>1, <1>4, <1>5 DEF Serving
<1>9. ~Answered(toHarness, c) /\ ~Taken(answerOf, c)
  BY <1>8 DEF IInv, Placed, OnePlace
<1>10. NetTypes' /\ SrvTypes' /\ Down'
  BY <1>1, <1>5, <1>7 DEF IInv, Types, NetTypes, SrvTypes, Down
<1>11. Phases'
  BY <1>1, <1>2, <1>8 DEF IInv, Placed, Phases
<1>12. OnePlace' /\ Once'
  BY <1>1, <1>2, <1>8 DEF IInv, Placed, OnePlace, Once
<1>13. OnTime'
  BY <1>1, <1>2, <1>8 DEF IInv, OnTime
<1>14. Truthful(toHarness, decided')
  <2> SUFFICES ASSUME NEW i \in DOMAIN toHarness PROVE toHarness[i].decision = decided'[toHarness[i].call]
    BY DEF Truthful
  <2>1. toHarness[i].call # c
    BY <1>9 DEF Answered
  <2>2. toHarness[i].call \in ToolCalls
    <3>1. toHarness[i] \in Responses
      BY DEF IInv, Types, NetTypes
    <3> QED BY <3>1 DEF Responses
  <2> QED BY <1>7, <2>1, <2>2 DEF IInv, Telling, Truthful
<1>15. ASSUME NEW e \in ran PROVE answerOf[e] # NoCall /\ decided'[answerOf[e]] \in {"ALLOW", "CONFIRM"}
  <2>1. e \in ToolCalls /\ answerOf[e] # NoCall /\ decided[answerOf[e]] \in {"ALLOW", "CONFIRM"} /\ answerOf[e] \in ToolCalls
    BY DEF IInv, Types, SdkTypes, Telling
  <2>2. answerOf[e] # c
    BY <1>9, <2>1 DEF Taken
  <2> QED BY <1>7, <2>1, <2>2
<1>16. Telling'
  BY <1>1, <1>2, <1>5, <1>7, <1>14, <1>15 DEF Telling
<1> QED BY <1>2, <1>10, <1>11, <1>12, <1>13, <1>16 DEF IInv, Types, Placed

\* The answer is written.
LEMMA ReplyInv == ASSUME IInv, Reply PROVE IInv'
<1>1. srv.stage = "reply" /\ srv' = Idle /\ UNCHANGED <<toAuditor, connected, stored, decided>> /\ UNCHANGED sdkVars
  BY DEF Reply
<1>2. SdkTypes' /\ LockHeld' /\ UNCHANGED <<sdkPc, sdkLock, ran, answerOf, timedOut>>
  BY <1>1, ServerAlone
<1>3. srv \in Served
  BY <1>1 DEF IInv, Types, SrvTypes, Idle
<1>4. PICK c \in ToolCalls : c = srv.call
  BY <1>3 DEF Served
<1>5. decided[c] \in Decisions
  BY <1>1, <1>4 DEF IInv, Telling
<1>6. PICK a : a = [call |-> c, torn |-> FALSE, decision |-> decided[c]]
  OBVIOUS
<1>7. a \in Responses /\ a.call = c /\ a.torn = FALSE /\ a.decision = decided[c]
  BY <1>5, <1>6 DEF Responses
<1>8. toHarness' = Append(toHarness, a)
  BY <1>4, <1>6 DEF Reply
<1>9. gateRows' \subseteq ToolCalls \X Decisions
  <2>1. gateRows' = gateRows \/ gateRows' = gateRows \cup {<<c, decided[c]>>}
    BY <1>4 DEF Reply
  <2> QED BY <1>5, <2>1 DEF IInv, Types, SrvTypes
<1>10. Serving(srv, c) /\ \A e \in ToolCalls : ~Serving(srv', e)
  BY <1>1, <1>4 DEF Serving, Idle
<1>11. ~Answered(toHarness, c) /\ ~Taken(answerOf, c) /\ ~Asked(toAuditor, c) /\ sdkPc[c] \notin Before
  BY <1>10 DEF IInv, Placed, OnePlace, Phases
<1>12. toHarness \in Seq(Responses) /\ AnsweredOnce(toHarness) /\ Truthful(toHarness, decided)
  BY DEF IInv, Types, NetTypes, Placed, Once, Telling
<1>13. /\ toHarness' \in Seq(Responses) /\ AnsweredOnce(toHarness') /\ Truthful(toHarness', decided)
       /\ \A e \in ToolCalls : Answered(toHarness', e) <=> Answered(toHarness, e) \/ e = c
       /\ Whole(toHarness) => Whole(toHarness')
  <2>1. ~Answered(toHarness, a.call) /\ a.decision = decided[a.call]
    BY <1>7, <1>11
  <2>2. /\ Append(toHarness, a) \in Seq(Responses) /\ AnsweredOnce(Append(toHarness, a)) /\ Truthful(Append(toHarness, a), decided)
        /\ \A e \in ToolCalls : Answered(Append(toHarness, a), e) <=> Answered(toHarness, e) \/ e = a.call
        /\ Whole(toHarness) => Whole(Append(toHarness, a))
    BY <1>7, <1>12, <2>1, WriteAnswer
  <2> QED BY <1>7, <1>8, <2>2
<1>14. NetTypes' /\ SrvTypes' /\ Down'
  BY <1>1, <1>9, <1>13 DEF IInv, Types, NetTypes, SrvTypes, Down
<1>15. Phases'
  BY <1>1, <1>2, <1>10, <1>11, <1>13 DEF IInv, Placed, Phases
<1>16. OnePlace'
  BY <1>1, <1>2, <1>10, <1>11, <1>13 DEF IInv, Placed, OnePlace
<1>17. Once'
  BY <1>1, <1>2, <1>13 DEF IInv, Placed, Once
<1>18. Telling'
  BY <1>1, <1>2, <1>13 DEF IInv, Telling, Idle
<1>19. OnTime'
  BY <1>1, <1>2, <1>10, <1>13 DEF IInv, OnTime
<1> QED BY <1>2, <1>14, <1>15, <1>16, <1>17, <1>18, <1>19 DEF IInv, Types, Placed

\* What is lost is nowhere.
LEMMA ConnectionDownInv == ASSUME IInv, ConnectionDown PROVE IInv'
<1>1. /\ connected' = FALSE /\ toAuditor' = << >> /\ srv' = Idle /\ toHarness' \in {toHarness, << >>}
      /\ UNCHANGED <<stored, decided, gateRows>> /\ UNCHANGED sdkVars
  BY DEF ConnectionDown
<1>2. SdkTypes' /\ LockHeld' /\ UNCHANGED <<sdkPc, sdkLock, ran, answerOf, timedOut>>
  BY <1>1, ServerAlone
<1>3. \A c \in ToolCalls : ~Asked(toAuditor', c) /\ ~Serving(srv', c) /\ (Answered(toHarness', c) => Answered(toHarness, c))
  BY <1>1 DEF Asked, Serving, Idle, Answered
<1>4. /\ toHarness' \in Seq(Responses) /\ AnsweredOnce(toHarness') /\ Truthful(toHarness', decided)
      /\ Whole(toHarness) => Whole(toHarness')
  <2>1. toHarness \in Seq(Responses) /\ AnsweredOnce(toHarness) /\ Truthful(toHarness, decided)
    BY DEF IInv, Types, NetTypes, Placed, Once, Telling
  <2>2. CASE toHarness' = << >>
    BY <2>2 DEF AnsweredOnce, Truthful, Whole
  <2> QED BY <1>1, <2>1, <2>2
<1>5. NetTypes' /\ SrvTypes' /\ Down'
  <2>1. toAuditor' \in Seq(Frames) /\ Len(toAuditor') <= MaxBuffer
    BY <1>1, Nones
  <2> QED BY <1>1, <1>4, <2>1 DEF IInv, Types, NetTypes, SrvTypes, Down
<1>6. Phases'
  BY <1>1, <1>2, <1>3 DEF IInv, Placed, Phases
<1>7. OnePlace'
  BY <1>2, <1>3 DEF IInv, Placed, OnePlace
<1>8. Once'
  BY <1>1, <1>2, <1>4 DEF IInv, Placed, Once, AskedOnce
<1>9. Telling'
  BY <1>1, <1>2, <1>4 DEF IInv, Telling, Idle
<1>10. OnTime'
  BY <1>2, <1>3, <1>4 DEF IInv, OnTime
<1> QED BY <1>2, <1>5, <1>6, <1>7, <1>8, <1>9, <1>10 DEF IInv, Types, Placed

LEMMA StutterInv == ASSUME IInv, UNCHANGED gateVars PROVE IInv'
<1>1. UNCHANGED <<srv, stored, decided, gateRows, toAuditor, toHarness, connected>> /\ UNCHANGED sdkVars
  BY DEF gateVars, srvVars
<1>2. SdkTypes' /\ LockHeld' /\ UNCHANGED <<sdkPc, sdkLock, ran, answerOf, timedOut>>
  BY <1>1, ServerAlone
<1>3. NetTypes' /\ SrvTypes' /\ Down' /\ Telling'
  BY <1>1, <1>2 DEF IInv, Types, NetTypes, SrvTypes, Down, Telling
<1>4. Placed' /\ OnTime'
  BY <1>1, <1>2 DEF IInv, Placed, Phases, OnePlace, Once, OnTime
<1> QED BY <1>2, <1>3, <1>4 DEF IInv, Types

LEMMA StepInv == IInv /\ [GateNext]_gateVars => IInv'
<1> SUFFICES ASSUME IInv, [GateNext]_gateVars PROVE IInv'
  OBVIOUS
<1>1. ASSUME NEW c \in ToolCalls, Sdk(c) PROVE IInv'
  BY <1>1, AsideInv, WriteEndInv, WriteRequestInv, TakeAnswerInv DEF Sdk
<1>2. CASE Server
  BY <1>2, ReadFrameInv, DecideInv, ReplyInv DEF Server
<1> QED BY <1>1, <1>2, ConnectionDownInv, StutterInv DEF GateNext, Terminated

LEMMA AlwaysInv == GateSpec => []IInv
  BY InitInv, StepInv, PTL DEF GateSpec

\* A body runs only on a permission of the auditor, each answer is taken once, and without a timeout by
\* the call that asked: for any number of calls, whatever times out, is torn or goes down.
THEOREM PermissionsHold == GateSpec => []RunsOnPermission
<1>1. IInv => RunsOnPermission
  <2> SUFFICES ASSUME IInv PROVE RunsOnPermission
    OBVIOUS
  <2>1. GateTypeOK
    BY DEF IInv, Types, SdkTypes, NetTypes, SrvTypes, GateTypeOK, Labels, Responses, Served
  <2>2. AnswerSource
    BY DEF IInv, Placed, Phases, Once, TakenOnce, OnTime, AnswerSource
  <2> QED BY <2>1, <2>2 DEF IInv, Telling, RunsOnPermission
<1> QED BY <1>1, AlwaysInv, PTL
================================================================================
