---------------------------- MODULE CommandQueue ----------------------------
(***************************************************************************)
(* What the command path promises to whoever publishes a command: once the *)
(* program has taken a command in, it goes to its device exactly once, in  *)
(* the order the commands came, and does go there unless the program stops *)
(* or the device is never found.                                           *)
(***************************************************************************)
EXTENDS Sequences

CONSTANTS Names, Msgs

VARIABLES pending,     \* per device, taken in and not yet handed to it
          delivered,   \* per device, handed to it
          known,       \* the devices that have been found
          stopped      \* the program was asked to stop

vars == <<pending, delivered, known, stopped>>

Init == /\ pending = [d \in Names |-> <<>>]
        /\ delivered = [d \in Names |-> <<>>]
        /\ known \in SUBSET Names
        /\ stopped = FALSE

Accept(d, m) == /\ pending' = [pending EXCEPT ![d] = Append(@, m)]
                /\ UNCHANGED <<delivered, known, stopped>>

Deliver(d) == /\ d \in known
              /\ pending[d] # <<>>
              /\ delivered' = [delivered EXCEPT ![d] = Append(@, Head(pending[d]))]
              /\ pending' = [pending EXCEPT ![d] = Tail(@)]
              /\ UNCHANGED <<known, stopped>>

Find(d) == /\ known' = known \cup {d}
           /\ UNCHANGED <<pending, delivered, stopped>>

Stop == /\ stopped' = TRUE
        /\ UNCHANGED <<pending, delivered, known>>

Next == \/ \E d \in Names : \/ \E m \in Msgs : Accept(d, m)
                            \/ Deliver(d)
                            \/ Find(d)
        \/ Stop

Spec == /\ Init /\ [][Next]_vars
        /\ \A d \in Names : WF_vars(~stopped /\ Deliver(d))
=============================================================================
