-------------------------- MODULE MCPackageRelease --------------------------
(***************************************************************************)
(* The manifest's chain of outputs: db_out, and for each domain its        *)
(* backfill and its merged output.  A template is the manifest at one      *)
(* version, its modules compiled into one binary, with stale overrides on  *)
(* two of its modules, on either network.                                  *)
(***************************************************************************)
EXTENDS PackageRelease, TLC

CONSTANTS robinhood, other

V11 == "v11"
V14 == "v14"
V2 == "import_v2"
MCKinds == {V11, V14, V2}

MCFinal == [k \in MCKinds |-> CASE k = V11 -> "v11_continuation_db_out"
                                [] k = V14 -> "v14_continuation_db_out"
                                [] k = V2  -> "import_v2_continuation_db_out"]
MCBackfill == [k \in MCKinds |-> CASE k = V11 -> "v11_backfill_db_out"
                                   [] k = V14 -> "v14_backfill_db_out"
                                   [] k = V2  -> "import_v2_backfill_db_out"]

Manifest ==
    [db_out                        |-> <<1, <<>>>>,
     index_broker_db_out           |-> <<2, <<>>>>,
     v11_backfill_db_out           |-> <<2, <<"index_broker_db_out">>>>,
     v11_continuation_db_out       |-> <<1, <<"db_out", "v11_backfill_db_out">>>>,
     v14_backfill_db_out           |-> <<4, <<>>>>,
     v14_continuation_db_out       |-> <<1, <<"v11_continuation_db_out", "v14_backfill_db_out">>>>,
     import_v2_backfill_db_out     |-> <<3, <<>>>>,
     import_v2_continuation_db_out |-> <<3, <<"v14_continuation_db_out", "import_v2_backfill_db_out">>>>]

Legacy == {"db_out"}
OfDomain(k) == {MCFinal[k], MCBackfill[k]}
WithV11 == Legacy \cup {"index_broker_db_out"} \cup OfDomain(V11)

\* The manifest before V14, before the imported markets, without V14, whole.
Versions == {WithV11, WithV11 \cup OfDomain(V14), WithV11 \cup OfDomain(V2),
             DOMAIN Manifest}

Newest(names) == IF MCFinal[V2] \in names THEN V2
                 ELSE IF MCFinal[V14] \in names THEN V14 ELSE V11

Overridden(k) == {"db_out", IF k = V11 THEN MCBackfill[k] ELSE MCFinal[k]}
Partial(S) == UNION {[T -> {MaxBlock}] : T \in SUBSET S}

\* Without V14 the imported markets are merged with V11's output.
InputsIn(names, n) ==
    IF n = MCFinal[V2] /\ MCFinal[V14] \notin names
    THEN <<MCFinal[V11], MCBackfill[V2]>>
    ELSE Manifest[n][2]

Built(names, content, overrides, sink) ==
    [modules   |-> [n \in names |-> [binary |-> 1,
                                     initialBlock |-> Manifest[n][1],
                                     inputs |-> InputsIn(names, n)]],
     binaries  |-> <<content>>,
     overrides |-> overrides,
     sink      |-> sink]

MCNetworks == {robinhood, other}

MCTemplates ==
    UNION {LET k == Newest(names) IN
           {Built(names, names, [net \in MCNetworks |-> IF net = robinhood THEN o ELSE p],
                  "db_out") :
              o \in Partial(Overridden(k)), p \in Partial(Overridden(k) \ {"db_out"})} :
           names \in Versions}

\* Production starts as the unified package, with or without an override.
MCProduction ==
    {Built(Legacy, Legacy, o, "db_out") :
        o \in {[net \in MCNetworks |-> <<>>],
               [net \in MCNetworks |-> IF net = robinhood THEN [db_out |-> 2] ELSE <<>>]}}

MCBinding == {V14, V2}
MCReset == {"index_broker_db_out", MCFinal[V11]}
=============================================================================
