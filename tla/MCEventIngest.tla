---------------------------- MODULE MCEventIngest ----------------------------
(* Model values and bounds for checking EventIngest with TLC. *)
EXTENDS EventIngest, TLC

CONSTANTS o1, o2

MCOrders == {o1, o2}
MCCouriers == {1, 2}
MCCouriers1 == {1}
MCPartitions1 == {1}
MCPartitions2 == {1, 2}

\* ORDER_POLLING_ENABLED=" Yes" turns the poller on; KAFKA_BROKERS=",kafka:9092 "
\* has a blank part, and with KAFKA_ENABLED unset the consumer runs.
MCEnvPolling ==
    [ORDER_POLLING_ENABLED |-> EnvWord("yes", TRUE, TRUE),
     KAFKA_BROKERS |-> <<Plain(""), EnvWord("kafka:9092", FALSE, TRUE)>>,
     KAFKA_ORDER_TOPIC |-> Plain("orders"),
     KAFKA_CONSUMER_GROUP |-> Plain("courier"),
     KAFKA_ENABLED |-> Plain("")]
\* ORDER_POLLING_ENABLED=on is not one of the accepted words: no poller.
\* KAFKA_ENABLED=TRUE turns the consumer on.
MCEnvKafkaOnly ==
    [ORDER_POLLING_ENABLED |-> Plain("on"),
     KAFKA_BROKERS |-> <<Plain("kafka:9092")>>,
     KAFKA_ORDER_TOPIC |-> EnvWord("orders", FALSE, TRUE),
     KAFKA_CONSUMER_GROUP |-> Plain("courier"),
     KAFKA_ENABLED |-> EnvWord("true", TRUE, FALSE)]

\* Orders are interchangeable; couriers are integers ordered by id.
OrderSymmetry == Permutations(MCOrders)
=============================================================================
