---------------------------- MODULE MCMetricsText ----------------------------
(* Sensor names of all the shapes the code tells apart, two at a time.      *)
EXTENDS MetricsText

MCElements == {"core", "data", "read", "bytes", "thread", "name", "smart", "capacity",
               "1", "2", "#1", "p1", "p2", "q1", "3d", "-"}
MCSanitized == [e \in MCElements |-> CASE e = "#1" -> "1" [] e = "-" -> "" [] OTHER -> e]
MCDigitFirst == {"1", "2", "#1", "3d"}
MCNumberOf == [e \in {"1", "2", "#1", "p1", "p2", "q1"} |->
                  IF e \in {"2", "p2"} THEN "2" ELSE "1"]
MCSuffix == [type \in {"data", "throughput"} |->
                IF type = "data" THEN <<"bytes">> ELSE <<"bytes", "per", "second">>]

UpTo(n, S) == UNION {[1..k -> S] : k \in 1..n}
Names == UpTo(2, {"core", "data", "1", "#1"}) \union {
    <<"data", "read">>, <<"read">>, <<"data", "bytes">>, <<"smart", "capacity">>,
    <<"name", "1">>, <<"core", "p1", "2">>, <<"core", "-", "2">>, <<"core", "3d", "p1">>,
    <<"core", "1", "thread", "2">>, <<"core", "2", "thread", "2">>,
    <<"core", "2", "thread", "1">>, <<"core", "1", "core", "2">>, <<"core", "2", "core", "2">>,
    <<"core", "p1", "q1", "p2", "1">>, <<"core", "q1", "p2", "p1", "1">>}
SensorsOf(N) ==
    [prefix : {<<"hardware", "storage">>}, labels : {[name |-> "disk"]},
     type : {"data", "temperature"}, info : {NoInfo}, name : N]
    \union {[prefix |-> <<"hardware", "storage">>, labels |-> [name |-> "disk"],
             type |-> "throughput", info |-> "smu", name |-> <<"core", "1">>]}
MCSensorInputs == [1..2 -> SensorsOf(Names)] \union {<<>>}

MCCommonFields == << <<"health">>, <<"capacity", "bytes">> >>
MCAttributeFields == << <<"ata", "value">>, <<"ata", "raw">> >>
MCNvmeFields == << <<"nvme", "spare">> >>

\* Two drives of one model; two attributes under one name.
Ata == [device |-> "sda", model |-> "m", fields |-> {<<"capacity", "bytes">>},
        table |-> <<[id |-> 1, name |-> "Unknown"], [id |-> 2, name |-> "Unknown"]>>]
Nvme == [device |-> "nvme0", model |-> "m", fields |-> {<<"health">>, <<"nvme", "spare">>},
         table |-> <<>>]
MCReportInputs == {<<>>, <<Ata, Nvme>>}
=============================================================================
