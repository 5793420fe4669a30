--------------------------- MODULE MCSubscription ---------------------------
(* Two topics, two subscribers, and several ways their mutexes lie in memory. *)
EXTENDS Subscription

At(order) == [m \in Mutexes |-> CHOOSE i \in DOMAIN order : order[i] = m]
\* Each topic lies below and above each subscriber.
Orders == {At(<<"A", "s", "B", "r">>), At(<<"r", "B", "s", "A">>)}
\* Both subscribers have the first topic, and one has the second too.
ThreeLinked == <<<<1, "A", "s">>, <<2, "A", "r">>, <<3, "B", "s">> >>

MostCalls ==
  [t \in Threads |-> CASE t = "u" -> {"subscribe", "unsubscribe", "unsubscribe_all"}
                      [] t = "v" -> {"unsubscribe"}
                      [] t = "p" -> {"publish", "clear"}]
EraseTopic == [t \in Threads |-> IF t = "p" THEN {"erase_topic"} ELSE {"unsubscribe"}]
====
