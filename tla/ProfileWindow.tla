---------------------------- MODULE ProfileWindow ----------------------------
(***************************************************************************)
(* What the sensor promises the controller about one container's profile:  *)
(* an observation window that opens once and closes once, snapshots that   *)
(* only grow while it is open, and at most one final snapshot, frozen when *)
(* the window closes, after which nothing more is published.  Everything   *)
(* published about a container goes to one address.                        *)
(*                                                                         *)
(* cmd/sensor's router (ProfilePost) implements it.                        *)
(***************************************************************************)
EXTENDS Naturals, Sequences

CONSTANTS Containers, Files, Addresses

VARIABLES
    window,     \* "none", "open" or "closed", for each container
    seen,       \* what has been observed of it
    frozen,     \* what had been observed when its window closed
    published   \* its snapshots, in order

windowVars == <<window, seen, frozen, published>>

FinalKinds == {"truncated", "terminal"}

\* Published to one address, and no final snapshot yet.
MayPublish(c, to) ==
    \A i \in 1 .. Len(published[c]) :
        published[c][i].to = to /\ published[c][i].kind \notin FinalKinds

Publish(c, kind, files, to) ==
    published' = [published EXCEPT ![c] =
                    Append(@, [kind |-> kind, files |-> files, to |-> to])]

WInit ==
    /\ window = [c \in Containers |-> "none"]
    /\ seen = [c \in Containers |-> {}]
    /\ frozen = [c \in Containers |-> {}]
    /\ published = [c \in Containers |-> <<>>]

Open(c) ==
    /\ window[c] = "none"
    /\ window' = [window EXCEPT ![c] = "open"]
    /\ UNCHANGED <<seen, frozen, published>>

\* An observation may still come in after the window has closed; it is never
\* published.
Observe(c, f) ==
    /\ window[c] # "none"
    /\ seen' = [seen EXCEPT ![c] = @ \cup {f}]
    /\ UNCHANGED <<window, frozen, published>>

PublishInterim(c, to) ==
    /\ window[c] = "open"
    /\ MayPublish(c, to)
    /\ Publish(c, "interim", seen[c], to)
    /\ UNCHANGED <<window, seen, frozen>>

Close(c) ==
    /\ window[c] = "open"
    /\ window' = [window EXCEPT ![c] = "closed"]
    /\ frozen' = [frozen EXCEPT ![c] = seen[c]]
    /\ UNCHANGED <<seen, published>>

PublishFinal(c, kind, to) ==
    /\ window[c] = "closed"
    /\ MayPublish(c, to)
    /\ Publish(c, kind, frozen[c], to)
    /\ UNCHANGED <<window, seen, frozen>>

WNext ==
    \E c \in Containers :
        \/ Open(c)
        \/ \E f \in Files : Observe(c, f)
        \/ \E to \in Addresses : PublishInterim(c, to)
        \/ Close(c)
        \/ \E kind \in FinalKinds, to \in Addresses : PublishFinal(c, kind, to)

WSpec == WInit /\ [][WNext]_windowVars
=============================================================================
