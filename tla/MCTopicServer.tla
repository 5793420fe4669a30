---------------------------- MODULE MCTopicServer ----------------------------
(* One topic with few publishers and subscribers. *)
EXTENDS TopicServer, TLC

RoleSymmetry == Permutations(Publishers) \cup Permutations(Subscribers)
=============================================================================
