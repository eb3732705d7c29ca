--------------------------- MODULE AsyncServices ---------------------------
(* The services around the asynchronous pipeline that keep state of their   *)
(* own: the judge, the Sampler, and the console that follows a run.  They   *)
(* share nothing, so a behaviour is one of one of them.                     *)
EXTENDS Judge, Sampler, Console

VARIABLE part
vars == <<part, judgeVars, samplerVars, consoleVars>>

\* Where the parts that do not run wait.
JudgeWaits == judge.base = "stub" /\ judge.cache = "none" /\ judge.escalates
SamplerWaits == backend = "memory"

Init == /\ JudgeInit /\ SamplerInit /\ ConsoleInit
        /\ part \in {"judge", "sampler", "console"}
        /\ part # "judge" => JudgeWaits
        /\ part # "sampler" => SamplerWaits

JudgePart == part = "judge" /\ UNCHANGED <<part, samplerVars, consoleVars>>
SamplerPart == part = "sampler" /\ UNCHANGED <<part, judgeVars, consoleVars>>
ConsolePart == part = "console" /\ UNCHANGED <<part, judgeVars, samplerVars>>
Next == \/ JudgePart /\ JudgeNext
        \/ SamplerPart /\ SamplerNext
        \/ ConsolePart /\ ConsoleNext

(* No model need ever answer.  The end of a call and the event loop are     *)
(* fair: httpx and the Anthropic client are given timeout_s for each        *)
(* operation and a finite number of repetitions, so that a call ends, at no *)
(* particular time.  In the browser the interval fires, state changes are   *)
(* rendered, and a request ends; neither the agent nor its audits need ever *)
(* end.                                                                     *)
Fairness == /\ \A c \in Callers : WF_judgeVars(JudgePart /\ (TimesOut(c) \/ Set(c)))
            /\ WF_consoleVars(ConsolePart /\ \E p \in Polls : Poll(p))
            /\ WF_consoleVars(ConsolePart /\ Render)
            /\ WF_consoleVars(ConsolePart /\ LoginStep)
            /\ WF_consoleVars(ConsolePart /\ \E s \in Slots : SlotStep(s))
Spec == Init /\ [][Next]_vars /\ Fairness
=============================================================================
