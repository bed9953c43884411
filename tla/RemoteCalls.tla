---------------------------- MODULE RemoteCalls -----------------------------
(***************************************************************************)
(* What a remote connection promises: the requests of a client are served  *)
(* once each, in the order they were sent, and the callback of each is     *)
(* called with its own results and only after it was served.               *)
(***************************************************************************)
EXTENDS Naturals, Sequences, SequencesExt

CONSTANTS
  Client, Request,
  Calls(_, _, _) \* the calls of its callback that request r, the n-th of
                 \* client c, is due: a sequence

VARIABLES
  asked,     \* per client: the requests sent
  served,    \* per client: the numbers of the requests served
  called     \* per client: the calls of its callbacks

cvars == <<asked, served, called>>

CInit ==
  /\ asked = [c \in Client |-> <<>>]
  /\ served = [c \in Client |-> <<>>]
  /\ called = [c \in Client |-> <<>>]

Ask(c, r) ==
  /\ asked' = [asked EXCEPT ![c] = Append(@, r)]
  /\ UNCHANGED <<served, called>>

\* One packet may hold several requests.
Serve(c) ==
  /\ \E n \in Len(served[c]) + 1 .. Len(asked[c]) :
       served' = [served EXCEPT ![c] = [i \in 1..n |-> i]]
  /\ UNCHANGED <<asked, called>>

Due(c) == FlattenSeq([i \in DOMAIN served[c] |-> Calls(c, i, asked[c][i])])

Answer(c) ==
  /\ \E n \in Len(called[c]) + 1 .. Len(Due(c)) :
       called' = [called EXCEPT ![c] = SubSeq(Due(c), 1, n)]
  /\ UNCHANGED <<asked, served>>

CNext ==
  \E c \in Client :
    \/ \E r \in Request : Ask(c, r)
    \/ Serve(c)
    \/ Answer(c)

CSpec == CInit /\ [][CNext]_cvars

=============================================================================
