---------------------------- MODULE StepContract ----------------------------
(***************************************************************************)
(* What Run owes runner-go for one step, without watcher, launcher, waiters*)
(* or snapshots: the launch is answered once, and with success only when   *)
(* the Pod has the step's image; the end of the step is decided once, by an*)
(* end that really came; an exit code is reported only of a launched step, *)
(* and is the one that was decided on; and a failure is reported as the    *)
(* step's own, or as another one's, only when it is.  StepExecution        *)
(* implements it for every step.                                           *)
(***************************************************************************)
EXTENDS Naturals

VARIABLES
  image,      \* the image of the step's container: none, placeholder, own
  ends,       \* the images and codes its containers have ended with
  launch,     \* unasked, asked, started, refused
  answers,    \* how often the launch was answered
  verdict,    \* open, or finished, placeholderFailed or failed
  code,       \* the exit code of a decided step
  others,     \* the other steps whose end was decided to be a failure
  result      \* what was reported: none, an exit code, failed (the step's
              \* container), other (another step's container) or an error

contractVars == <<image, ends, launch, answers, verdict, code, others, result>>

Failures == {"placeholderFailed", "failed"}

Verdicts == Failures \cup {"finished"}

Init ==
  /\ image \in {"none", "placeholder"} /\ ends = {}
  /\ launch = "unasked" /\ answers = 0
  /\ verdict = "open" /\ code = "nil" /\ others = {} /\ result = "none"

(* The outside world: the image comes with the launch, containers end, also*)
(* those of other steps.                                                   *)
World ==
  /\ image' = image \/ (image = "placeholder" /\ image' = "own")
  /\ ends \subseteq ends' /\ others \subseteq others'
  /\ UNCHANGED <<launch, answers, verdict, code, result>>

Ask ==
  /\ launch = "unasked" /\ launch' = "asked"
  /\ UNCHANGED <<image, ends, answers, verdict, code, others, result>>

(* A task that is stopped refuses at once. *)
AnswerLaunch ==
  /\ answers = 0 /\ answers' = 1
  /\ \/ launch \in {"unasked", "asked"} /\ launch' = "refused"
     \/ launch = "asked" /\ image = "own" /\ launch' = "started"
  /\ UNCHANGED <<image, ends, verdict, code, others, result>>

(* A failure that nobody could recover from may have been either image's. *)
Decide ==
  /\ verdict = "open" /\ verdict' \in Verdicts
  /\ \E e \in ends :
       /\ code' = e[2]
       /\ verdict' = "finished" => e[1] = "own"
       /\ verdict' = "placeholderFailed" => e[1] = "placeholder"
  /\ UNCHANGED <<image, ends, launch, answers, others, result>>

ReportError ==
  /\ result = "none" /\ result' = "error"
  /\ UNCHANGED <<image, ends, launch, answers, verdict, code, others>>

(* FailedContainerError and OtherContainerError. *)
ReportFailure ==
  /\ result = "none"
  /\ \/ verdict \in Failures /\ result' = "failed"
     \/ others # {} /\ result' = "other"
  /\ UNCHANGED <<image, ends, launch, answers, verdict, code, others>>

ReportCode ==
  /\ result = "none" /\ result' = code
  /\ launch = "started" /\ verdict \in Verdicts
  /\ UNCHANGED <<image, ends, launch, answers, verdict, code, others>>

Next == World \/ Ask \/ AnswerLaunch \/ Decide \/ ReportError \/ ReportFailure \/ ReportCode

Spec == Init /\ [][Next]_contractVars
=============================================================================
