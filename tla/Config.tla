------------------------------- MODULE Config -------------------------------
(***************************************************************************)
(* The delivery settings of pkg/config/config.go and the time policy that  *)
(* model/delivery_policy.go builds from them.  Durations are integers in   *)
(* seconds.  An environment variable is abstracted to what getDuration     *)
(* tells apart: Unset (missing, or blank after TrimSpace), Malformed       *)
(* (time.ParseDuration fails), or the duration it parses to, which may be  *)
(* zero or negative ("0", "-5m").                                          *)
(***************************************************************************)
EXTENDS Integers, Sequences

Unset == [kind |-> "unset"]
Malformed == [kind |-> "malformed"]
Dur(d) == [kind |-> "duration", value |-> d]

\* getDuration(envName, fallback): a blank or unparsable value gives the
\* fallback; any duration that parses is taken as it is.
GetDuration(raw, fallback) ==
    IF raw.kind = "duration" THEN raw.value ELSE fallback

\* The defaults of getDeliveryConfig.
DeliveryDefaults ==
    [MonitorInterval |-> 10, OnFootDuration |-> 1800,
     ScooterDuration |-> 900, CarDuration |-> 300]

\* getDeliveryConfig: env gives the raw value of each DELIVERY_* variable.
DeliveryConfig(env) ==
    [v \in DOMAIN DeliveryDefaults |-> GetDuration(env[v], DeliveryDefaults[v])]

\* NewDeliveryTimeFactory and ForTransport: the offset of a transport type;
\* a type the map does not know (the column is not validated) takes the
\* on-foot offset.
ForTransport(cfg, t) ==
    LET offset == [on_foot |-> cfg.OnFootDuration, scooter |-> cfg.ScooterDuration,
                   car |-> cfg.CarDuration]
    IN IF t \in DOMAIN offset THEN offset[t] ELSE cfg.OnFootDuration

\* fixedDurationPolicy.Deadline: now plus the transport's offset.
Deadline(cfg, t, now) == now + ForTransport(cfg, t)

-----------------------------------------------------------------------------
(* Which drivers the service starts: getOrderPolling, getKafkaConfig and   *)
(* splitCSV, then NewApp and App.Start.  A string value is abstracted to   *)
(* its word and two marks that the conversions act on: whether it has      *)
(* upper-case letters and whether it has blanks around it.                 *)

EnvWord(w, upper, padded) == [word |-> w, upper |-> upper, padded |-> padded]
Plain(w) == EnvWord(w, FALSE, FALSE)

\* strings.TrimSpace and strings.ToLower.
TrimSpace(v) == [v EXCEPT !.padded = FALSE]
ToLower(v) == [v EXCEPT !.upper = FALSE]
IsEmpty(v) == v = Plain("")

\* v == "true" || v == "1" || v == "yes", on a trimmed, lower-cased value.
IsTrue(v) == v \in {Plain("true"), Plain("1"), Plain("yes")}

\* getOrderPolling: ORDER_POLLING_ENABLED, off when blank.
OrderPolling(raw) ==
    ~IsEmpty(TrimSpace(raw)) /\ IsTrue(ToLower(TrimSpace(raw)))

\* splitCSV on KAFKA_BROKERS: the value arrives split at its commas (a
\* sequence of parts); blank parts are dropped and the others trimmed.
SplitCSV(parts) ==
    LET kept == SelectSeq(parts, LAMBDA p : ~IsEmpty(TrimSpace(p)))
    IN [i \in 1..Len(kept) |-> TrimSpace(kept[i])]

\* getKafkaConfig: enabled when there are brokers, unless KAFKA_ENABLED is
\* set, which then decides alone.
KafkaConfig(env) ==
    [brokers |-> SplitCSV(env.KAFKA_BROKERS),
     topic   |-> TrimSpace(env.KAFKA_ORDER_TOPIC),
     group   |-> TrimSpace(env.KAFKA_CONSUMER_GROUP),
     enabled |-> IF IsEmpty(TrimSpace(env.KAFKA_ENABLED))
                   THEN Len(SplitCSV(env.KAFKA_BROKERS)) > 0
                   ELSE IsTrue(ToLower(TrimSpace(env.KAFKA_ENABLED)))]

\* NewConsumer's checks: NewApp panics when an enabled consumer has no
\* brokers, no group id or no topic.
ConsumerConfigValid(k) ==
    Len(k.brokers) > 0 /\ ~IsEmpty(k.group) /\ ~IsEmpty(k.topic)
StartupPanics(env) ==
    KafkaConfig(env).enabled /\ ~ConsumerConfigValid(KafkaConfig(env))

\* App.Start: the goroutines started.  The delivery monitor always runs.
Drivers(env) ==
    {"monitor"}
    \cup (IF OrderPolling(env.ORDER_POLLING_ENABLED) THEN {"poller"} ELSE {})
    \cup (IF KafkaConfig(env).enabled THEN {"consumer"} ELSE {})

=============================================================================
