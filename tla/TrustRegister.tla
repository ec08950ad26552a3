--------------------------- MODULE TrustRegister ---------------------------
(***************************************************************************)
(* What the on-disk trust store promises its caller, with no slots,        *)
(* generations, checksums or file handles: one table from hosts to pins.   *)
(* A save puts one pin; the put takes effect whole and once, or never, and *)
(* it has taken effect when the save reports success.  A crash leaves the  *)
(* table alone.  Other machines may put pins too, and the medium may be    *)
(* exchanged for another.                                                  *)
(***************************************************************************)
CONSTANTS Hosts,   \* the hosts a pin can be stored for
          Pins,    \* the pins (digests of a leaf's public key)
          NoPin    \* "no record for this host"

VARIABLES store,   \* the table: a pin or NoPin for each host
          put,     \* the put under way: <<>> or <<host, pin>>
          applied, \* the put under way has taken effect
          outcome  \* what the last save reported

vars == <<store, put, applied, outcome>>

Table == [Hosts -> Pins \cup {NoPin}]
Puts  == {<<>>} \cup (Hosts \X Pins)

Init ==
    /\ store \in Table
    /\ put = <<>>
    /\ applied = FALSE
    /\ outcome = "none"

\* A save begins.
Begin(h, p) ==
    /\ put = <<>>
    /\ put' = <<h, p>>
    /\ applied' = FALSE
    /\ outcome' = "none"
    /\ UNCHANGED store

\* The put takes effect: one host's entry, nothing else.
Apply ==
    /\ put # <<>>
    /\ ~applied
    /\ store' = [store EXCEPT ![put[1]] = put[2]]
    /\ applied' = TRUE
    /\ UNCHANGED <<put, outcome>>

\* The save reports success: only after the put took effect.
Report ==
    /\ put # <<>>
    /\ applied
    /\ put' = <<>>
    /\ applied' = FALSE
    /\ outcome' = "saved"
    /\ UNCHANGED store

\* A refusal, a failure or a crash ends whatever was under way.
Abandon ==
    /\ put' = <<>>
    /\ applied' = FALSE
    /\ outcome' \in {"none", "refused"}
    /\ UNCHANGED store

\* A put that a crash left in the firmware takes effect at the next close.
LateApply ==
    /\ put # <<>>
    /\ ~applied
    /\ store' = [store EXCEPT ![put[1]] = put[2]]
    /\ put' = <<>>
    /\ applied' = FALSE
    /\ outcome' \in {"none", "refused"}

\* The save failed, or the machine was reset, with the put still undecided.
Doubt ==
    /\ put # <<>>
    /\ outcome' \in {"none", "refused"}
    /\ UNCHANGED <<store, put, applied>>

\* Another machine puts a pin, or another medium is inserted.
Foreign ==
    /\ put = <<>>
    /\ store' \in Table
    /\ UNCHANGED <<put, applied, outcome>>

Next ==
    \/ \E h \in Hosts, p \in Pins : Begin(h, p)
    \/ Apply
    \/ Report
    \/ Abandon
    \/ LateApply
    \/ Doubt
    \/ Foreign

Spec == Init /\ [][Next]_vars
=============================================================================
