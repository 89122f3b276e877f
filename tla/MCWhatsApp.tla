----------------------------- MODULE MCWhatsApp -----------------------------
(***************************************************************************)
(* The instances of WhatsAppIntegration that TLC checks.  Those about      *)
(* favourites start with every number of the callers saved and one         *)
(* favourite, as they are after a webhook for each and an addition.        *)
(***************************************************************************)
EXTENDS WhatsAppIntegration, SequencesExt, TLC

Names == Permutations(Phones) \cup Permutations(Wabas)

OnWabaAll == [w \in Wabas |-> Templates]

Saved(p, w) ==
    LET phones == SetToSeq(Phones)
        board(project, f) == [project |-> project, phone |-> f, waba |-> w, live |-> TRUE]
    IN [i \in 1..Len(phones) |-> board(p, phones[i])]
       \o [i \in 1..Len(phones) |-> board(Main, phones[i])]

InitSaved ==
    /\ \E p \in Callers, w \in Wabas : dash = Saved(p, w)
    /\ \E t \in Templates : favs = [i \in Ids |-> IF i = 1 THEN {t} ELSE {}]
    /\ hook = [h \in Hooks |-> NoHook] /\ webhooks = 0
    /\ adding = [u \in Users |-> NoAddition] /\ additions = 0
    /\ moves = {} /\ slot = [s \in Slots |-> NoMove]
    /\ lost = {} /\ unsure = {} /\ spoiled = {} /\ faults = 0

SavedSpec == InitSaved /\ [][Next]_vars /\ Fairness
=============================================================================
