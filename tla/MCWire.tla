------------------------------- MODULE MCWire -------------------------------
(***************************************************************************)
(* Two instances of Wire for TLC: that of the cfg; and two clients that    *)
(* may go away, one in batch and one in stream mode, whose packets end     *)
(* between writes.  They share no state, and each behaviour is one of the  *)
(* instance that `part` names.                                             *)
(***************************************************************************)
EXTENDS Wire

CONSTANTS c1, c2

Find(n) == [op |-> "find", rows |-> n]
Save    == [op |-> "save", rows |-> 1]

\* Requests that are answered: with no result, with one, with two.
Answered   == {Find(0), Save, Find(2)}
TwoRows    == {Find(2)}
OneSave    == {Save}

VARIABLES part, asked2, up2, down2, server2, client2, called2, gone2

Two == INSTANCE Wire WITH
         Clients <- {c1, c2}, Requests <- TwoRows, MaxRequests <- 2,
         MidCuts <- FALSE, Stream <- {c2}, Faults <- {"disconnect"},
         asked <- asked2, up <- up2, down <- down2, server <- server2,
         client <- client2, called <- called2, gone <- gone2

twoVars == <<asked2, up2, down2, server2, client2, called2, gone2>>

WiresInit == part \in {"one", "two"} /\ Init /\ Two!Init

WiresNext == /\ UNCHANGED part
             /\ IF part = "one" THEN Next ELSE UNCHANGED wvars
             /\ IF part = "two" THEN Two!Next ELSE UNCHANGED twoVars

\* The handlers of the instance that does not run have nothing to read.
WiresSpec == /\ WiresInit
             /\ [][WiresNext]_<<part, wvars, twoVars>>
             /\ Fairness /\ Two!Fairness
-----------------------------------------------------------------------------
\* Two clients and globalsd, too, implement the remote calls, also when one
\* goes away: each request is served once, in order, and its callback gets its
\* own results (client.js:33-37).
TwoImplement == Two!ImplementsCalls

\* Each of two clients that stays has all its answers again and again, whatever
\* becomes of the other (client.js:119-131).
TwoAnswered == Two!AllAnswered

=============================================================================
