------------------------------ MODULE MCRoasts ------------------------------
(* The calls of two kinds of clients, in one run: those that contend for   *)
(* identities, and those that work on what hangs on a roast.               *)
EXTENDS MCCloudSync

VARIABLE clients  \* the requests the clients of this behaviour make

RoastsCalls == IdentityCalls \cup ChildrenCalls

\* Bound on the write_seq of behaviours about identities.
IdentityMaxSeq == 5

MCInit == Init /\ clients \in {IdentityCalls, ChildrenCalls}

MCNext ==
  /\ Next
  /\ \A s \in Sessions : req'[s] \in clients \cup {NoRequest}
  /\ clients = IdentityCalls => stage' = {} /\ db'.seq <= IdentityMaxSeq
  /\ UNCHANGED clients

MCSpec == MCInit /\ [][MCNext]_<<vars, clients>>
================================================================================
