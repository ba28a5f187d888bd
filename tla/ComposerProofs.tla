---------------------------- MODULE ComposerProofs ----------------------------
(***************************************************************************)
(* Theorems about Composer, for any texts, sends and failing fetches: a form *)
(* is disabled exactly while one send of its own is under way, a 202 clears  *)
(* what was sent and nothing else, every repeated send was earned by an       *)
(* error, and what leaves a form is queued or was reported refused.          *)
(***************************************************************************)
EXTENDS Composer, FiniteSetTheorems, TLAPS

\* What is in an input or on its way was typed.
TypedOnly ==
  /\ \A f \in Forms : draft[f] \in typed \cup {None}
  /\ \A s \in Sends : text[s] \in typed \cup {None}

\* SendingTrue without counting.
OneSend ==
  /\ \A s \in Sends : awaiting[s] # None => sending[awaiting[s]]
  /\ \A s1, s2 \in Sends : awaiting[s1] = awaiting[s2] /\ awaiting[s1] # None => s1 = s2
  /\ \A f \in Forms : sending[f] => \E s \in Sends : awaiting[s] = f

\* No text is in two inputs.
DraftsDistinct ==
  \A f, g \in Forms : draft[f] = draft[g] /\ draft[f] # None => f = g

\* A text that could be submitted now has an error for each send of it so far.
SendsEarned ==
  /\ \A t \in Texts \ typed : sent[t] = 0
  /\ \A f \in Forms : draft[f] # None /\ ~sending[f] => sent[draft[f]] <= rejected[draft[f]]

\* A 204 in a receipt stands for a queued text, and the mock answers with a
\* result at least.
ReceiptTrue ==
  \A s \in Sends :
    /\ stage[s] \in {"idle", "posted"} => receipt[s] = {}
    /\ stage[s] = "delivering" => waiting[s] > 0 \/ receipt[s] # {}
    /\ stage[s] = "answered" => receipt[s] # {}
    /\ "204" \in receipt[s] => text[s] \in queued

FormInv == ComposerTypeOK /\ TypedOnly /\ OneSend /\ DraftUntouched

CountInv == DraftsDistinct /\ SendsEarned /\ SendsExplained

MockInv == ReceiptTrue /\ TakenIsQueued

-----------------------------------------------------------------------------
(* Forms: types, and which send belongs to which form.                     *)

LEMMA FormInvInit == ComposerInit => FormInv
<1> SUFFICES ASSUME ComposerInit PROVE FormInv
  OBVIOUS
<1>1. ComposerTypeOK
  BY FormAssumption, SendAssumption, LostAssumption DEF ComposerInit, ComposerTypeOK
<1>2. TypedOnly /\ OneSend /\ DraftUntouched
  BY DEF ComposerInit, TypedOnly, OneSend, DraftUntouched
<1> QED
  BY <1>1, <1>2 DEF FormInv

\* A send that is over leaves nothing behind in its slot.
LEMMA OverType ==
  ASSUME ComposerTypeOK, NEW s \in Sends, Over(s)
  PROVE  /\ stage' \in [Sends -> {"idle", "posted", "delivering", "answered"}]
         /\ text' \in [Sends -> Texts \cup {None}]
         /\ waiting' \in [Sends -> 0..2]
         /\ receipt' \in [Sends -> SUBSET Results]
         /\ awaiting' \in [Sends -> Forms \cup {None}]
         /\ \A x \in Sends : (text'[x] = None) <=> (stage'[x] = "idle")
         /\ \A x \in Sends : awaiting'[x] # None => stage'[x] # "idle"
         /\ \A x \in Sends \ {s} : /\ awaiting'[x] = awaiting[x] /\ text'[x] = text[x]
                                   /\ receipt'[x] = receipt[x] /\ stage'[x] = stage[x]
                                   /\ waiting'[x] = waiting[x]
         /\ awaiting'[s] = None /\ text'[s] = None /\ stage'[s] = "idle" /\ receipt'[s] = {}
BY DEF ComposerTypeOK, Over

\* An answer or an error enables the one form that awaited it.
LEMMA Released ==
  ASSUME FormInv, NEW s \in Sends, awaiting[s] \in Forms,
         \A x \in Sends : awaiting'[x] = IF x = s THEN None ELSE awaiting[x],
         sending' = [sending EXCEPT ![awaiting[s]] = FALSE]
  PROVE  OneSend'
<1> USE DEF FormInv, OneSend
<1>1. \A f \in Forms : sending'[f] <=> sending[f] /\ f # awaiting[s]
  BY DEF ComposerTypeOK
<1>2. \A x \in Sends : awaiting[x] \in Forms \cup {None}
  BY DEF ComposerTypeOK
<1>3. \A x \in Sends : awaiting'[x] # None => sending'[awaiting'[x]]
  BY <1>1, <1>2
<1>4. \A f \in Forms : sending'[f] => \E x \in Sends : awaiting'[x] = f
  BY <1>1
<1> QED
  BY <1>3, <1>4

LEMMA FormInvStep == FormInv /\ [ComposerNext]_composerVars => FormInv'
<1> SUFFICES ASSUME FormInv, [ComposerNext]_composerVars PROVE FormInv'
  OBVIOUS
<1> USE SendAssumption
<1> ComposerTypeOK /\ TypedOnly /\ OneSend /\ DraftUntouched
  BY DEF FormInv
<1>1. ASSUME NEW f \in Forms, NEW t \in Texts, Type(f, t) PROVE FormInv'
  <2>1. ComposerTypeOK'
    BY <1>1 DEF ComposerTypeOK, Type, mockVars
  <2>2. TypedOnly' /\ OneSend' /\ DraftUntouched'
    BY <1>1 DEF ComposerTypeOK, TypedOnly, OneSend, DraftUntouched, Type, mockVars
  <2> QED
    BY <2>1, <2>2 DEF FormInv
<1>2. ASSUME NEW f \in Forms, NEW s \in Sends, Submit(f, s) PROVE FormInv'
  <2>1. draft[f] \in Texts /\ awaiting[s] = None
    BY <1>2 DEF ComposerTypeOK, Submit
  <2>2. ComposerTypeOK'
    BY <1>2, <2>1 DEF ComposerTypeOK, Submit
  <2>3. TypedOnly' /\ OneSend' /\ DraftUntouched'
    BY <1>2, <2>1 DEF ComposerTypeOK, TypedOnly, OneSend, DraftUntouched, Submit
  <2> QED
    BY <2>2, <2>3 DEF FormInv
<1>3. CASE ToggleNewChat
  BY <1>3 DEF FormInv, ComposerTypeOK, TypedOnly, OneSend, DraftUntouched, ToggleNewChat,
     mockVars, pastVars
<1>4. CASE UnmountChat
  <2>1. ComposerTypeOK'
    BY <1>4 DEF ComposerTypeOK, UnmountChat, mockVars, pastVars
  <2>2. TypedOnly' /\ OneSend' /\ DraftUntouched'
    BY <1>4 DEF ComposerTypeOK, TypedOnly, OneSend, DraftUntouched, UnmountChat, mockVars,
       pastVars
  <2> QED
    BY <2>1, <2>2 DEF FormInv
<1>5. CASE MountChat
  BY <1>5 DEF FormInv, ComposerTypeOK, TypedOnly, OneSend, DraftUntouched, MountChat,
     mockVars, pastVars
<1>6. ASSUME NEW s \in Sends, MockStep(s) PROVE FormInv'
  <2>1. CASE Received(s)
    BY <2>1 DEF FormInv, ComposerTypeOK, TypedOnly, OneSend, DraftUntouched, Received,
       formVars, pastVars
  <2>2. ASSUME NEW r \in Results, WebhookAnswers(s, r) PROVE FormInv'
    <3>1. text[s] \in typed
      BY <2>2 DEF ComposerTypeOK, TypedOnly, WebhookAnswers
    <3> QED
      BY <2>2, <3>1 DEF FormInv, ComposerTypeOK, TypedOnly, OneSend, DraftUntouched,
         WebhookAnswers, formVars
  <2>3. CASE MockAnswers(s)
    BY <2>3 DEF FormInv, ComposerTypeOK, TypedOnly, OneSend, DraftUntouched, MockAnswers,
       formVars, pastVars
  <2> QED
    BY <1>6, <2>1, <2>2, <2>3 DEF MockStep
<1>7. ASSUME NEW s \in Sends, Resolved(s) PROVE FormInv'
  <2>1. Over(s) /\ awaiting[s] \in Forms /\ text[s] \in typed
    BY <1>7 DEF ComposerTypeOK, TypedOnly, Resolved
  <2>2. ComposerTypeOK'
    BY <1>7, <2>1, OverType DEF ComposerTypeOK, Resolved
  <2>3. \A x \in Sends : awaiting'[x] = IF x = s THEN None ELSE awaiting[x]
    BY <2>1, OverType
  <2>4. OneSend'
    BY <1>7, <2>1, <2>3, Released DEF Resolved
  <2>5. TypedOnly'
    BY <1>7, <2>1, OverType DEF ComposerTypeOK, TypedOnly, Resolved
  <2>6. DraftUntouched'
    BY <1>7, <2>1, <2>3, OverType DEF ComposerTypeOK, OneSend, DraftUntouched, Resolved
  <2> QED
    BY <2>2, <2>4, <2>5, <2>6 DEF FormInv
<1>8. ASSUME NEW s \in Sends, Ignored(s) PROVE FormInv'
  <2>1. ComposerTypeOK'
    BY <1>8, OverType DEF ComposerTypeOK, Ignored, formVars, pastVars
  <2>2. TypedOnly' /\ OneSend' /\ DraftUntouched'
    BY <1>8, OverType DEF ComposerTypeOK, TypedOnly, OneSend, DraftUntouched, Ignored,
       formVars, pastVars
  <2> QED
    BY <2>1, <2>2 DEF FormInv
<1>9. ASSUME NEW s \in Sends, Rejected(s) PROVE FormInv'
  <2>1. awaiting[s] \in Forms /\ text[s] \in Texts
    BY <1>9 DEF ComposerTypeOK, Rejected
  <2>2. /\ rejected' \in [Texts -> 0..MaxFaults]
        /\ failed' \in [Forms -> BOOLEAN]
        /\ sending' = [sending EXCEPT ![awaiting[s]] = FALSE]
        /\ UNCHANGED <<shown, draft, typed, queued, sent, taken, refused>>
    BY <1>9, <2>1, LostAssumption DEF ComposerTypeOK, Rejected
  <2>3. /\ stage' \in [Sends -> {"idle", "posted", "delivering", "answered"}]
        /\ text' \in [Sends -> Texts \cup {None}]
        /\ waiting' \in [Sends -> 0..2]
        /\ receipt' \in [Sends -> SUBSET Results]
        /\ awaiting' \in [Sends -> Forms \cup {None}]
        /\ \A x \in Sends : (text'[x] = None) <=> (stage'[x] = "idle")
        /\ \A x \in Sends : awaiting'[x] # None => stage'[x] # "idle"
        /\ \A x \in Sends : awaiting'[x] = IF x = s THEN None ELSE awaiting[x]
        /\ \A x \in Sends : text'[x] \in {text[x], None}
        /\ \A x \in Sends \ {s} : text'[x] = text[x]
    <3>1. CASE Over(s)
      BY <3>1, OverType
    <3>2. CASE awaiting' = [awaiting EXCEPT ![s] = None] /\ UNCHANGED mockVars
      BY <3>2 DEF ComposerTypeOK, mockVars
    <3> QED
      BY <1>9, <3>1, <3>2 DEF Rejected
  <2>4. ComposerTypeOK'
    BY <2>1, <2>2, <2>3 DEF ComposerTypeOK
  <2>5. OneSend'
    BY <2>1, <2>2, <2>3, Released
  <2>6. TypedOnly' /\ DraftUntouched'
    BY <2>2, <2>3 DEF TypedOnly, DraftUntouched
  <2> QED
    BY <2>4, <2>5, <2>6 DEF FormInv
<1>10. CASE UNCHANGED composerVars
  BY <1>10 DEF FormInv, ComposerTypeOK, TypedOnly, OneSend, DraftUntouched, composerVars,
     formVars, mockVars, pastVars
<1> QED
  BY <1>1, <1>2, <1>3, <1>4, <1>5, <1>6, <1>7, <1>8, <1>9, <1>10 DEF ComposerNext

LEMMA FormInvAlways == ComposerSpec => []FormInv
BY FormInvInit, FormInvStep, PTL DEF ComposerSpec

\* Types, and a send that a form awaits is under way.
THEOREM ComposerTyping == ComposerSpec => []ComposerTypeOK
<1>1. FormInv => ComposerTypeOK
  BY DEF FormInv
<1> QED
  BY <1>1, FormInvAlways, PTL

\* A form is disabled exactly while one send of its own is under way.
THEOREM ComposerSendingTrue == ComposerSpec => []SendingTrue
<1>1. FormInv => SendingTrue
  <2> SUFFICES ASSUME FormInv, NEW f \in Forms
               PROVE  Cardinality({s \in Sends : awaiting[s] = f})
                        = IF sending[f] THEN 1 ELSE 0
    BY DEF SendingTrue
  <2> DEFINE own == {s \in Sends : awaiting[s] = f}
  <2>1. CASE sending[f]
    <3>1. PICK s \in Sends : awaiting[s] = f
      BY <2>1 DEF FormInv, OneSend
    <3>2. own = {s}
      BY <3>1, SendAssumption DEF FormInv, OneSend
    <3> QED
      BY <2>1, <3>2, FS_Singleton
  <2>2. CASE ~sending[f]
    <3>1. own = {}
      BY <2>2, SendAssumption DEF FormInv, OneSend
    <3> QED
      BY <2>2, <3>1, FS_EmptySet
  <2> QED
    BY <2>1, <2>2
<1> QED
  BY <1>1, FormInvAlways, PTL

\* What a 202 clears is what was sent, and an error leaves what it is about.
THEOREM ComposerDraftUntouched == ComposerSpec => []DraftUntouched
<1>1. FormInv => DraftUntouched
  BY DEF FormInv
<1> QED
  BY <1>1, FormInvAlways, PTL

-----------------------------------------------------------------------------
(* Sends and errors.                                                       *)

LEMMA CountInvInit == ComposerInit => CountInv
BY LostAssumption
   DEF ComposerInit, CountInv, DraftsDistinct, SendsEarned, SendsExplained

LEMMA CountInvStep == FormInv /\ CountInv /\ [ComposerNext]_composerVars => CountInv'
<1> SUFFICES ASSUME FormInv, CountInv, [ComposerNext]_composerVars PROVE CountInv'
  OBVIOUS
<1> USE SendAssumption DEF CountInv, DraftsDistinct, SendsEarned, SendsExplained
<1> ComposerTypeOK /\ TypedOnly /\ OneSend /\ DraftUntouched
  BY DEF FormInv
<1> \A t \in Texts : sent[t] \in Nat /\ rejected[t] \in Nat
  BY LostAssumption DEF ComposerTypeOK
<1>1. ASSUME NEW f \in Forms, NEW t \in Texts, Type(f, t) PROVE CountInv'
  BY <1>1 DEF ComposerTypeOK, TypedOnly, Type
<1>2. ASSUME NEW f \in Forms, NEW s \in Sends, Submit(f, s) PROVE CountInv'
  <2>1. draft[f] \in Texts \cap typed /\ sent[draft[f]] <= rejected[draft[f]]
    BY <1>2 DEF ComposerTypeOK, TypedOnly, Submit
  <2> QED
    BY <1>2, <2>1 DEF ComposerTypeOK, Submit
<1>3. CASE ToggleNewChat \/ MountChat \/ \E s \in Sends : MockStep(s) \/ Ignored(s)
  BY <1>3 DEF ToggleNewChat, MountChat, MockStep, Received, WebhookAnswers, MockAnswers,
     Ignored, formVars, pastVars
<1>4. CASE UnmountChat
  BY <1>4 DEF ComposerTypeOK, UnmountChat, pastVars
<1>5. ASSUME NEW s \in Sends, Resolved(s) PROVE CountInv'
  BY <1>5 DEF ComposerTypeOK, Resolved
<1>6. ASSUME NEW s \in Sends, Rejected(s) PROVE CountInv'
  <2>1. awaiting[s] \in Forms /\ text[s] \in Texts /\ draft[awaiting[s]] = text[s]
    BY <1>6 DEF ComposerTypeOK, DraftUntouched, Rejected
  <2>2. /\ sending' = [sending EXCEPT ![awaiting[s]] = FALSE]
        /\ rejected' = [rejected EXCEPT ![text[s]] = @ + 1]
        /\ UNCHANGED <<draft, sent, typed>>
    BY <1>6 DEF Rejected
  <2> QED
    BY <2>1, <2>2 DEF ComposerTypeOK
<1>7. CASE UNCHANGED composerVars
  BY <1>7 DEF composerVars, formVars, pastVars
<1> QED
  BY <1>1, <1>2, <1>3, <1>4, <1>5, <1>6, <1>7 DEF ComposerNext

\* A text is sent again only after a send of it failed in the browser.
THEOREM ComposerSendsExplained == ComposerSpec => []SendsExplained
<1>1. CountInv => SendsExplained
  BY DEF CountInv
<1> QED
  BY <1>1, FormInvAlways, CountInvInit, CountInvStep, PTL DEF ComposerSpec

-----------------------------------------------------------------------------
(* Receipts.                                                               *)

LEMMA MockInvInit == ComposerInit => MockInv
BY DEF ComposerInit, MockInv, ReceiptTrue, TakenIsQueued

LEMMA MockInvStep == FormInv /\ MockInv /\ [ComposerNext]_composerVars => MockInv'
<1> SUFFICES ASSUME FormInv, MockInv, [ComposerNext]_composerVars PROVE MockInv'
  OBVIOUS
<1> USE DEF MockInv, ReceiptTrue, TakenIsQueued
<1> ComposerTypeOK
  BY DEF FormInv
<1>1. CASE \/ \E f \in Forms, t \in Texts : Type(f, t)
           \/ ToggleNewChat \/ UnmountChat \/ MountChat
  BY <1>1 DEF Type, ToggleNewChat, UnmountChat, MountChat, mockVars, pastVars
<1>2. ASSUME NEW f \in Forms, NEW s \in Sends, Submit(f, s) PROVE MockInv'
  BY <1>2 DEF ComposerTypeOK, Submit
<1>3. ASSUME NEW s \in Sends, MockStep(s) PROVE MockInv'
  <2>1. CASE Received(s)
    BY <2>1 DEF ComposerTypeOK, Received, pastVars
  <2>2. ASSUME NEW r \in Results, WebhookAnswers(s, r) PROVE MockInv'
    <3>1. queued \subseteq queued' /\ (r = "204" => text[s] \in queued')
      BY <2>2 DEF WebhookAnswers
    <3> QED
      BY <2>2, <3>1 DEF ComposerTypeOK, WebhookAnswers
  <2>3. CASE MockAnswers(s)
    BY <2>3 DEF ComposerTypeOK, MockAnswers, pastVars
  <2> QED
    BY <1>3, <2>1, <2>2, <2>3 DEF MockStep
<1>4. ASSUME NEW s \in Sends, Resolved(s) PROVE MockInv'
  <2>1. Over(s) /\ (AllRefused(s) \/ text[s] \in queued)
    BY <1>4 DEF Resolved, AllRefused
  <2>2. ReceiptTrue'
    BY <1>4, <2>1, OverType DEF Resolved
  <2>3. TakenIsQueued'
    BY <1>4, <2>1 DEF Resolved
  <2> QED
    BY <2>2, <2>3
<1>5. ASSUME NEW s \in Sends, Ignored(s) PROVE MockInv'
  BY <1>5, OverType DEF Ignored, pastVars
<1>6. ASSUME NEW s \in Sends, Rejected(s) PROVE MockInv'
  <2>1. UNCHANGED mockVars \/ Over(s)
    BY <1>6 DEF Rejected
  <2>2. UNCHANGED <<queued, taken, refused>>
    BY <1>6 DEF Rejected
  <2> QED
    BY <2>1, <2>2, OverType DEF mockVars
<1>7. CASE UNCHANGED composerVars
  BY <1>7 DEF composerVars, mockVars, pastVars
<1> QED
  BY <1>1, <1>2, <1>3, <1>4, <1>5, <1>6, <1>7 DEF ComposerNext

\* What left its form after a 202 is on the queue, or its receipt named failures
\* only.
THEOREM ComposerTakenIsQueued == ComposerSpec => []TakenIsQueued
<1>1. MockInv => TakenIsQueued
  BY DEF MockInv
<1> QED
  BY <1>1, FormInvAlways, MockInvInit, MockInvStep, PTL DEF ComposerSpec
=============================================================================
