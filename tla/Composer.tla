------------------------------- MODULE Composer -------------------------------
(***************************************************************************)
(* How a message enters the system from the admin UI: the two forms that     *)
(* send one (the Composer of a ChatView and NewChat), sendSms(), and the     *)
(* mock's /simulate/inbound, which POSTs the webhook once or twice, awaits    *)
(* every POST and then answers 202.                                          *)
(*                                                                         *)
(* A form awaits its answer across anything else the user does: the chat's    *)
(* Composer is unmounted by a navigation or a failing refetch and mounted     *)
(* again as a new one, and the answer to the old one's send comes later.      *)
(***************************************************************************)
EXTENDS Integers, FiniteSets

CONSTANTS
  Forms,     \* "chat": the Composer; "new": NewChat
  Texts,     \* messages a user means to send, each typed once
  Sends,     \* sendSms() calls that can be under way at once, mock's part included
  None,      \* no text, no form
  MaxFaults  \* bound: failing fetches of the browser per text

ASSUME FormAssumption == Forms \subseteq {"chat", "new"}
ASSUME SendAssumption == None \notin Texts \cup Forms /\ IsFiniteSet(Sends)
ASSUME LostAssumption == MaxFaults \in Nat

VARIABLES
  shown,     \* forms on screen: the mounted Composer, the open NewChat
  draft,     \* draft[f]: what is in the input, or None
  sending,   \* sending[f]: the flag that disables the form
  failed,    \* failed[f]: an error is shown
  awaiting,  \* awaiting[s]: the form that will take the answer of s, or None
  stage,     \* stage[s]: "idle", "posted", "delivering", "answered"
  text,      \* text[s]: what s sends
  waiting,   \* waiting[s]: webhook POSTs of s under way
  receipt,   \* receipt[s]: their results so far
  typed,     \* texts typed so far (history)
  queued,    \* texts the backend has put on the queue (history)
  sent,      \* sent[t]: sendSms() calls with t (history)
  rejected,  \* rejected[t]: those that threw (history)
  taken,     \* texts whose form took a 202 (history)
  refused    \* those among them whose receipt names failures only (history)

formVars == <<shown, draft, sending, failed>>
mockVars == <<stage, text, waiting, receipt>>
pastVars == <<typed, queued, sent, rejected, taken, refused>>
composerVars == <<formVars, awaiting, mockVars, pastVars>>

-----------------------------------------------------------------------------
\* The chat's Composer is mounted with its conversation, NewChat starts closed.
ComposerInit ==
  /\ shown = Forms \ {"new"}
  /\ draft = [f \in Forms |-> None]
  /\ sending = [f \in Forms |-> FALSE]
  /\ failed = [f \in Forms |-> FALSE]
  /\ awaiting = [s \in Sends |-> None]
  /\ stage = [s \in Sends |-> "idle"]
  /\ text = [s \in Sends |-> None]
  /\ waiting = [s \in Sends |-> 0]
  /\ receipt = [s \in Sends |-> {}]
  /\ typed = {}
  /\ queued = {}
  /\ sent = [t \in Texts |-> 0]
  /\ rejected = [t \in Texts |-> 0]
  /\ taken = {}
  /\ refused = {}

-----------------------------------------------------------------------------
(* The forms.                                                              *)

\* Mutant: the input is not disabled while a send is under way.
TypeAnyTime(f, t) ==
  /\ f \in shown
  /\ t \notin typed
  /\ typed' = typed \cup {t}
  /\ draft' = [draft EXCEPT ![f] = t]
  /\ UNCHANGED <<shown, sending, failed, awaiting, mockVars, queued, sent, rejected, taken,
                 refused>>

\* The user writes a message, over whatever is there.
Type(f, t) ==
  /\ f \in shown /\ ~sending[f]
  /\ t \notin typed
  /\ typed' = typed \cup {t}
  /\ draft' = [draft EXCEPT ![f] = t]
  /\ UNCHANGED <<shown, sending, failed, awaiting, mockVars, queued, sent, rejected, taken,
                 refused>>

\* Mutant: submit() does not look at `sending`.
SubmitAgain(f, s) ==
  /\ f \in shown
  /\ draft[f] # None
  /\ stage[s] = "idle"
  /\ sending' = [sending EXCEPT ![f] = TRUE]
  /\ failed' = [failed EXCEPT ![f] = FALSE]
  /\ awaiting' = [awaiting EXCEPT ![s] = f]
  /\ stage' = [stage EXCEPT ![s] = "posted"]
  /\ text' = [text EXCEPT ![s] = draft[f]]
  /\ sent' = [sent EXCEPT ![draft[f]] = @ + 1]
  /\ UNCHANGED <<shown, draft, waiting, receipt, typed, queued, rejected, taken, refused>>

\* submit() up to its await: an empty draft, or a send under way, returns early.
Submit(f, s) ==
  /\ f \in shown /\ ~sending[f]
  /\ draft[f] # None
  /\ stage[s] = "idle"
  /\ sending' = [sending EXCEPT ![f] = TRUE]
  /\ failed' = [failed EXCEPT ![f] = FALSE]
  /\ awaiting' = [awaiting EXCEPT ![s] = f]
  /\ stage' = [stage EXCEPT ![s] = "posted"]
  /\ text' = [text EXCEPT ![s] = draft[f]]
  /\ sent' = [sent EXCEPT ![draft[f]] = @ + 1]
  /\ UNCHANGED <<shown, draft, waiting, receipt, typed, queued, rejected, taken, refused>>

\* Mutant: Cancel is not disabled during a send.
ToggleAnyTime ==
  /\ "new" \in Forms
  /\ shown' = IF "new" \in shown THEN shown \ {"new"} ELSE shown \cup {"new"}
  /\ UNCHANGED <<draft, sending, failed, awaiting, mockVars, pastVars>>

\* "+ New chat" and Cancel, which is disabled during a send: the state stays.
ToggleNewChat ==
  /\ "new" \in Forms /\ ~sending["new"]
  /\ shown' = IF "new" \in shown THEN shown \ {"new"} ELSE shown \cup {"new"}
  /\ UNCHANGED <<draft, sending, failed, awaiting, mockVars, pastVars>>

\* ChatView renders no Composer while it loads another conversation or shows an
\* error: its state is gone, and the answer it awaited changes nothing.
UnmountChat ==
  /\ "chat" \in shown
  /\ shown' = shown \ {"chat"}
  /\ draft' = [draft EXCEPT !["chat"] = None]
  /\ sending' = [sending EXCEPT !["chat"] = FALSE]
  /\ failed' = [failed EXCEPT !["chat"] = FALSE]
  /\ awaiting' = [s \in Sends |-> IF awaiting[s] = "chat" THEN None ELSE awaiting[s]]
  /\ UNCHANGED <<mockVars, pastVars>>

\* Data again: a new Composer.
MountChat ==
  /\ "chat" \in Forms \ shown
  /\ shown' = shown \cup {"chat"}
  /\ UNCHANGED <<draft, sending, failed, awaiting, mockVars, pastVars>>

-----------------------------------------------------------------------------
(* /simulate/inbound.                                                      *)

\* The mock POSTs the webhook, or POSTs it twice.
Received(s) ==
  /\ stage[s] = "posted"
  /\ stage' = [stage EXCEPT ![s] = "delivering"]
  /\ \E n \in 1..2 : waiting' = [waiting EXCEPT ![s] = n]
  /\ receipt' = [receipt EXCEPT ![s] = {}]
  /\ UNCHANGED <<formVars, awaiting, text, pastVars>>

\* "failed": 500, or no answer (0).
Results == {"204", "failed"}

\* deliverWebhook(): 204 once the message is on the queue; a failure whether it is
\* or not.
WebhookAnswers(s, result) ==
  /\ stage[s] = "delivering" /\ waiting[s] > 0
  /\ waiting' = [waiting EXCEPT ![s] = @ - 1]
  /\ receipt' = [receipt EXCEPT ![s] = @ \cup {result}]
  /\ \/ queued' = queued \cup {text[s]}
     \/ result # "204" /\ UNCHANGED queued
  /\ UNCHANGED <<formVars, awaiting, stage, text, typed, sent, rejected, taken, refused>>

\* Mutant: the mock answers without awaiting its deliveries.
MockAnswersAtOnce(s) ==
  /\ stage[s] = "delivering"
  /\ stage' = [stage EXCEPT ![s] = "answered"]
  /\ UNCHANGED <<formVars, awaiting, text, waiting, receipt, pastVars>>

\* Every delivery has its result: 202, whatever the results are.
MockAnswers(s) ==
  /\ stage[s] = "delivering" /\ waiting[s] = 0
  /\ stage' = [stage EXCEPT ![s] = "answered"]
  /\ UNCHANGED <<formVars, awaiting, text, waiting, receipt, pastVars>>

-----------------------------------------------------------------------------
(* submit() after its await.                                               *)

\* The send is over; its slot is free again.
Over(s) ==
  /\ stage' = [stage EXCEPT ![s] = "idle"]
  /\ text' = [text EXCEPT ![s] = None]
  /\ waiting' = [waiting EXCEPT ![s] = 0]
  /\ receipt' = [receipt EXCEPT ![s] = {}]
  /\ awaiting' = [awaiting EXCEPT ![s] = None]

\* The receipt names results, and no 204 among them.
AllRefused(s) == receipt[s] # {} /\ "204" \notin receipt[s]

\* Mutant: a 202 leaves the draft in the input.
ResolvedKeepingDraft(s) ==
  /\ stage[s] = "answered" /\ awaiting[s] # None
  /\ sending' = [sending EXCEPT ![awaiting[s]] = FALSE]
  /\ taken' = taken \cup {text[s]}
  /\ refused' = IF AllRefused(s) THEN refused \cup {text[s]} ELSE refused
  /\ Over(s)
  /\ UNCHANGED <<shown, draft, failed, typed, queued, sent, rejected>>

\* 202: the draft is cleared, NewChat closes, the view is refreshed.  The receipt
\* is not looked at.
Resolved(s) ==
  /\ stage[s] = "answered" /\ awaiting[s] # None
  /\ draft' = [draft EXCEPT ![awaiting[s]] = None]
  /\ sending' = [sending EXCEPT ![awaiting[s]] = FALSE]
  /\ shown' = shown \ ({awaiting[s]} \cap {"new"})
  /\ taken' = taken \cup {text[s]}
  /\ refused' = IF AllRefused(s) THEN refused \cup {text[s]} ELSE refused
  /\ Over(s)
  /\ UNCHANGED <<failed, typed, queued, sent, rejected>>

\* The answer to a send whose Composer is gone, or whose fetch has failed.
Ignored(s) ==
  /\ stage[s] = "answered" /\ awaiting[s] = None
  /\ Over(s)
  /\ UNCHANGED <<formVars, pastVars>>

\* Mutant: an error returns before `sending` is cleared.
RejectedStillSending(s) ==
  /\ awaiting[s] # None
  /\ rejected[text[s]] < MaxFaults
  /\ rejected' = [rejected EXCEPT ![text[s]] = @ + 1]
  /\ failed' = [failed EXCEPT ![awaiting[s]] = TRUE]
  /\ awaiting' = [awaiting EXCEPT ![s] = None]
  /\ UNCHANGED <<shown, draft, sending, mockVars, typed, queued, sent, taken, refused>>

\* The fetch fails before or after the mock has the request: the error is shown,
\* the draft stays, and what the mock has begun it goes on with.
Rejected(s) ==
  /\ awaiting[s] # None
  /\ rejected[text[s]] < MaxFaults
  /\ rejected' = [rejected EXCEPT ![text[s]] = @ + 1]
  /\ failed' = [failed EXCEPT ![awaiting[s]] = TRUE]
  /\ sending' = [sending EXCEPT ![awaiting[s]] = FALSE]
  /\ \/ /\ awaiting' = [awaiting EXCEPT ![s] = None]
        /\ UNCHANGED mockVars
     \/ /\ stage[s] = "posted"
        /\ Over(s)
  /\ UNCHANGED <<shown, draft, typed, queued, sent, taken, refused>>

-----------------------------------------------------------------------------
MockStep(s) ==
  Received(s) \/ MockAnswers(s) \/ \E r \in Results : WebhookAnswers(s, r)

ComposerNext ==
  \/ \E f \in Forms, t \in Texts : Type(f, t)
  \/ \E f \in Forms, s \in Sends : Submit(f, s)
  \/ ToggleNewChat \/ UnmountChat \/ MountChat
  \/ \E s \in Sends : MockStep(s) \/ Resolved(s) \/ Ignored(s) \/ Rejected(s)

ComposerSpec == ComposerInit /\ [][ComposerNext]_composerVars

\* The mock and the webhook answer, and the browser takes their answers.
FairComposerSpec ==
  ComposerSpec /\ \A s \in Sends : WF_composerVars(MockStep(s) \/ Resolved(s) \/ Ignored(s))

-----------------------------------------------------------------------------
(* Properties.                                                             *)

\* Types; a send awaited by a form is under way, and a mounted form that is not on
\* screen (a closed NewChat) is not sending.
ComposerTypeOK ==
  /\ shown \subseteq Forms
  /\ draft \in [Forms -> Texts \cup {None}]
  /\ sending \in [Forms -> BOOLEAN]
  /\ failed \in [Forms -> BOOLEAN]
  /\ awaiting \in [Sends -> Forms \cup {None}]
  /\ stage \in [Sends -> {"idle", "posted", "delivering", "answered"}]
  /\ text \in [Sends -> Texts \cup {None}]
  /\ waiting \in [Sends -> 0..2]
  /\ receipt \in [Sends -> SUBSET Results]
  /\ typed \subseteq Texts
  /\ queued \subseteq typed
  /\ sent \in [Texts -> Nat]
  /\ rejected \in [Texts -> 0..MaxFaults]
  /\ taken \subseteq typed
  /\ refused \subseteq taken
  /\ \A s \in Sends : (text[s] = None) <=> (stage[s] = "idle")
  /\ \A s \in Sends : awaiting[s] # None => stage[s] # "idle"
  /\ \A f \in Forms : sending[f] => f \in shown

\* A form is disabled exactly while one send of its own is under way: none of a
\* Composer that was unmounted in the meantime, and never two.
SendingTrue ==
  \A f \in Forms :
    Cardinality({s \in Sends : awaiting[s] = f}) = IF sending[f] THEN 1 ELSE 0

\* What a 202 clears is what was sent: nothing typed since is lost with it, and an
\* error leaves in the input the text it is about.
DraftUntouched ==
  \A s \in Sends : awaiting[s] # None => draft[awaiting[s]] = text[s]

\* A text goes out again (under a new MessageSid, which nothing downstream can
\* recognize as the same message) only after a send of it failed in the browser.
SendsExplained == \A t \in Texts : sent[t] <= 1 + rejected[t]

\* "202 means queued" (ChatView.tsx), as far as it is so: a text that left its
\* form after a 202 is on the queue, or the receipt, which no form looks at, named
\* failures only.
TakenIsQueued == taken \ refused \subseteq queued

\* A form does not stay disabled for ever.
SendingEnds == \A f \in Forms : sending[f] ~> ~sending[f]
=============================================================================
