----------------------------- MODULE PairingTrust -----------------------------
(***************************************************************************)
(* What pairing promises (docs/design-specs/requirements/pairing.md): each *)
(* side's trust in the other is one Boolean that survives restarts.  It    *)
(* begins in one step, and only after both sides have consented to the     *)
(* running handshake, the phone first.  A user consents by confirming the  *)
(* short code; a side that trusted its peer when the handshake began is    *)
(* taken to consent again.  A user may withdraw trust at any time.         *)
(***************************************************************************)
CONSTANTS Phone, Desk

VARIABLES trusted, consent, established

Side == {Phone, Desk}
trustVars == <<trusted, consent, established>>

TrustTypeOK == /\ trusted \in [Side -> BOOLEAN]
               /\ consent \in [Side -> {"None", "Renewed", "User"}]
               /\ established \subseteq Side

Init == /\ trusted \in [Side -> BOOLEAN]
        /\ consent = [s \in Side |-> "None"]
        /\ established = {}

BeginHandshake == /\ consent' = [s \in Side |-> "None"]
                  /\ established' = {}
                  /\ UNCHANGED trusted

Renew(s) == /\ trusted[s] /\ consent[s] = "None"
            /\ consent' = [consent EXCEPT ![s] = "Renewed"]
            /\ UNCHANGED <<trusted, established>>

Confirm(s) == /\ consent' = [consent EXCEPT ![s] = "User"]
              /\ UNCHANGED <<trusted, established>>

Establish(s) ==
    /\ \A t \in Side: consent[t] # "None"
    /\ s = Desk => Phone \in established
    /\ trusted' = [trusted EXCEPT ![s] = TRUE]
    /\ established' = established \cup {s}
    /\ UNCHANGED consent

Withdraw(s) == /\ trusted' = [trusted EXCEPT ![s] = FALSE]
               /\ UNCHANGED <<consent, established>>

Next == \/ BeginHandshake
        \/ \E s \in Side: Renew(s) \/ Confirm(s) \/ Establish(s) \/ Withdraw(s)

Spec == Init /\ [][Next]_trustVars
=============================================================================
