----------------------------- MODULE MetricsText -----------------------------
(***************************************************************************)
(* The text MetricsController makes of the sensors and the SMART reports   *)
(* of one scrape: how a sensor's name becomes a metric name and labels,    *)
(* which samples a sensor and a report give, and the header written before *)
(* the first sample of each name.                                          *)
(*                                                                         *)
(* A name is a sequence of elements, what the code joins and splits at     *)
(* spaces and underscores; labels are a function from keys to values.  The *)
(* values of the samples, their escaping and the help texts are left out.  *)
(***************************************************************************)
EXTENDS Naturals, FiniteSets, SequencesExt, TLC

CONSTANTS
    Sanitized,      \* what SanitizeMetricName makes of each element, or ""
    DigitFirst,     \* the elements that match #?\d at their start
    NumberOf,       \* the number of each element that ends in one
    Suffix,         \* the words an alias of a type ends with; its domain is
                    \* the types that have an alias
    CommonFields,   \* optional fields of a report, then those of an attribute
    AttributeFields,
    NvmeFields,     \* and those of an NVMe health log: <<words of the name>>
    SensorInputs,   \* the sequences of sensors tried
    ReportInputs,   \* the sequences of reports tried
    NoInfo          \* a sensor name without a parenthesised end

\* Sensors and their names are sequences.
ASSUME SensorsAssumption ==
    \A s \in SensorInputs :
        /\ s \in Seq(Range(s))
        /\ \A n \in DOMAIN s : s[n].name \in Seq(Range(s[n].name))

\* The reports come from a dictionary whose key is the device, and a table has
\* one entry of each id and name.
ASSUME ReportsAssumption ==
    \A r \in ReportInputs :
        /\ r \in Seq(Range(r))
        /\ \A m, n \in DOMAIN r : r[m].device = r[n].device => m = n
        /\ \A n \in DOMAIN r :
              /\ r[n].table \in Seq(Range(r[n].table))
              /\ \A j, k \in DOMAIN r[n].table :
                    /\ r[n].table[j].id = r[n].table[k].id
                    /\ r[n].table[j].name = r[n].table[k].name
                    => j = k

\* The names of fields are words in sequence, and no two fields share one.
ASSUME FieldsAssumption ==
    /\ {CommonFields, AttributeFields, NvmeFields} \subseteq Seq(Seq(STRING))
    /\ IsInjective(<< <<"exit", "status">> >> \o CommonFields \o NvmeFields)
    /\ IsInjective(AttributeFields)

VARIABLES
    emitLegacy,     \* HardwareMonitor:EmitLegacyMetricNames
    sensors,        \* the sensors that have a value, in the order visited
    reports,        \* GetSnapshots()
    at,             \* the number of sensors and reports visited
    queue,          \* the samples of the last one not yet written
    lines,          \* the response so far
    emitted,        \* the set emittedMetrics
    failed          \* the scrape is answered with status 500

vars == <<emitLegacy, sensors, reports, at, queue, lines, emitted, failed>>
inputVars == <<emitLegacy, sensors, reports>>

-----------------------------------------------------------------------------
(* Names.                                                                  *)

\* The elements of s at the positions in I, in order.
At(s, I) == LET order == SetToSortSeq(I, <) IN [k \in DOMAIN order |-> s[order[k]]]

TrimDuplicateElements(s) == At(s, {k \in DOMAIN s : k = 1 \/ s[k] # s[k - 1]})

SanitizeMetricName(s) ==
    LET clean == [k \in DOMAIN s |-> Sanitized[s[k]]]
    IN  At(clean, {k \in DOMAIN s : clean[k] # ""})

\* Where the numbers of a name are that become labels: none, unless somewhere
\* behind the first element one starts like a number.
NumberAt(s) ==
    IF \E k \in 2..Len(s) : s[k] \in DigitFirst
    THEN {k \in 2..Len(s) : s[k] \in DOMAIN NumberOf} ELSE {}

SensorName(s) == SanitizeMetricName(At(s, DOMAIN s \ NumberAt(s)))

\* (mutant: the first element is the key of every number)
NumberLabelsFirst(s) ==
    LET last == CHOOSE k \in NumberAt(s) : \A l \in NumberAt(s) : l <= k
    IN  IF NumberAt(s) = {} THEN <<>> ELSE s[1] :> NumberOf[s[last]]

\* The element before a number is its key; of two with one key the last stays.
NumberLabels(s) ==
    [key \in {s[k - 1] : k \in NumberAt(s)} |->
        LET same == {k \in NumberAt(s) : s[k - 1] = key}
        IN  NumberOf[s[CHOOSE k \in same : \A l \in same : l <= k]]]

\* Two dictionaries in one, with the values of the first where both have one.
Joined(f, g) ==
    [key \in DOMAIN f \union DOMAIN g |-> IF key \in DOMAIN f THEN f[key] ELSE g[key]]

\* Both results of ProcessSensorName.
SensorLabels(sensor) ==
    Joined(NumberLabels(sensor.name),
           IF sensor.info = NoInfo THEN <<>> ELSE [sensor_info |-> sensor.info])

-----------------------------------------------------------------------------
(* Samples.                                                                *)

LegacyName(sensor) ==
    TrimDuplicateElements(sensor.prefix \o <<sensor.type>> \o SensorName(sensor.name))

HasAlias(sensor) == sensor.type \in DOMAIN Suffix

AliasName(sensor) ==
    TrimDuplicateElements(sensor.prefix \o SensorName(sensor.name) \o Suffix[sensor.type])

Sample(name, labels) == [name |-> name, labels |-> labels]

\* (mutant: the option silences every legacy name)
LegacyWantedAsked(sensor) == emitLegacy

LegacyWanted(sensor) == emitLegacy \/ ~HasAlias(sensor)

SensorSamples(sensor) ==
    LET labels == Joined(sensor.labels, SensorLabels(sensor))
    IN  (IF LegacyWanted(sensor) THEN <<Sample(LegacyName(sensor), labels)>> ELSE <<>>)
        \o (IF HasAlias(sensor) /\ AliasName(sensor) # LegacyName(sensor)
            THEN <<Sample(AliasName(sensor), labels)>> ELSE <<>>)

SmartName(field) == <<"hardware", "storage", "smart">> \o field

BaseLabels(report) == [device |-> report.device, model |-> report.model]

\* (mutant: attributes are told apart by their name alone)
AttributeLabelsByName(report, attr) == Joined(BaseLabels(report), [name |-> attr.name])

AttributeLabels(report, attr) ==
    Joined(BaseLabels(report), [id |-> attr.id, name |-> attr.name])

BaseSample(report, field) == Sample(SmartName(field), BaseLabels(report))

\* One sample for each of the fields that has a value.
Optional(report, fields) ==
    FlattenSeq([k \in DOMAIN fields |->
        IF fields[k] \in report.fields THEN <<BaseSample(report, fields[k])>> ELSE <<>>])

OfAttribute(report, attr) ==
    [k \in DOMAIN AttributeFields |->
        Sample(SmartName(AttributeFields[k]), AttributeLabels(report, attr))]

OfTable(report) ==
    FlattenSeq([k \in DOMAIN report.table |-> OfAttribute(report, report.table[k])])

SmartSamples(report) ==
    <<BaseSample(report, <<"exit", "status">>)>>
        \o Optional(report, CommonFields)
        \o OfTable(report)
        \o Optional(report, NvmeFields)

-----------------------------------------------------------------------------
(* One scrape.                                                             *)

Sources == Len(sensors) + Len(reports)

Header(name) == [kind |-> "header", name |-> name, labels |-> <<>>, source |-> 0]

\* The scrape is at one of its sources and emittedMetrics is the set of the
\* names written.
TypeOK ==
    /\ emitLegacy \in BOOLEAN
    /\ sensors \in SensorInputs
    /\ reports \in ReportInputs
    /\ at \in 0..Sources
    /\ \A k \in DOMAIN queue : DOMAIN queue[k] = {"name", "labels"}
    /\ \A k \in DOMAIN lines : /\ lines[k].kind \in {"header", "sample"}
                               /\ lines[k].source \in 0..at
    /\ emitted = {lines[k].name : k \in DOMAIN lines}
    /\ failed \in BOOLEAN

Init ==
    /\ emitLegacy \in BOOLEAN
    /\ sensors \in SensorInputs
    /\ reports \in ReportInputs
    /\ at = 0
    /\ queue = <<>>
    /\ lines = <<>>
    /\ emitted = {}
    /\ failed = FALSE

\* The two dictionaries of labels are joined by ToDictionary.
LabelsClash(sensor) == DOMAIN sensor.labels \intersect DOMAIN SensorLabels(sensor) # {}

\* ProcessHardware and ProcessSubHardware reach the next sensor.
ProcessSensor ==
    /\ ~failed
    /\ queue = <<>>
    /\ at < Len(sensors)
    /\ ~LabelsClash(sensors[at + 1])
    /\ queue' = SensorSamples(sensors[at + 1])
    /\ at' = at + 1
    /\ UNCHANGED <<inputVars, lines, emitted, failed>>

\* ToDictionary throws on a key that both have: nothing is answered at all.
ProcessSensorThrows ==
    /\ ~failed
    /\ queue = <<>>
    /\ at < Len(sensors)
    /\ LabelsClash(sensors[at + 1])
    /\ failed' = TRUE
    /\ lines' = <<>>
    /\ emitted' = {}
    /\ UNCHANGED <<inputVars, at, queue>>

\* EmitSmartMetrics reaches the next report.
EmitSmartMetrics ==
    /\ ~failed
    /\ queue = <<>>
    /\ at >= Len(sensors)
    /\ at < Sources
    /\ queue' = SmartSamples(reports[at + 1 - Len(sensors)])
    /\ at' = at + 1
    /\ UNCHANGED <<inputVars, lines, emitted, failed>>

Write(header) ==
    LET sample == Head(queue)
        line == [kind |-> "sample", name |-> sample.name, labels |-> sample.labels,
                 source |-> at]
    IN  /\ lines' = lines \o header \o <<line>>
        /\ emitted' = emitted \union {sample.name}
        /\ queue' = Tail(queue)
        /\ UNCHANGED <<inputVars, at, failed>>

NewHeader == IF Head(queue).name \in emitted THEN <<>> ELSE <<Header(Head(queue).name)>>

\* (mutant: the name is looked up in emittedMetrics but never added)
EmitSensorSampleForgetful ==
    /\ queue # <<>>
    /\ at <= Len(sensors)
    /\ lines' = lines \o NewHeader
                 \o <<[kind |-> "sample", name |-> Head(queue).name,
                       labels |-> Head(queue).labels, source |-> at]>>
    /\ queue' = Tail(queue)
    /\ UNCHANGED <<inputVars, at, emitted, failed>>

EmitSensorSample ==
    /\ queue # <<>>
    /\ at <= Len(sensors)
    /\ Write(NewHeader)

\* (mutant: SMART lines keep track of their headers by themselves)
EmitSmartLineApart ==
    /\ queue # <<>>
    /\ at > Len(sensors)
    /\ Write(IF \E k \in DOMAIN lines : lines[k].source > Len(sensors)
                                        /\ lines[k].name = Head(queue).name
             THEN <<>> ELSE <<Header(Head(queue).name)>>)

EmitSmartLine ==
    /\ queue # <<>>
    /\ at > Len(sensors)
    /\ Write(NewHeader)

Next == \/ ProcessSensor \/ ProcessSensorThrows \/ EmitSensorSample
        \/ EmitSmartMetrics \/ EmitSmartLine

Spec == Init /\ [][Next]_vars

-----------------------------------------------------------------------------
(* Properties.                                                             *)

Samples == {k \in DOMAIN lines : lines[k].kind = "sample"}
SamplesOf(n) == {k \in Samples : lines[k].source = n}
Series(k) == <<lines[k].name, lines[k].labels>>

\* HELP and TYPE stand once per metric name, before its first sample, also
\* when a sensor and a SMART report give samples of one name.
HeadersOnce ==
    /\ \A k \in Samples :
          \E h \in 1..(k - 1) : lines[h].kind = "header" /\ lines[h].name = lines[k].name
    /\ \A h, g \in DOMAIN lines \ Samples : lines[h].name = lines[g].name => h = g

\* Turning the legacy names off silences no sensor that has no other name: with
\* them on, or without an alias, each sensor visited is in the response, whatever
\* was made of its name (ProcessSensor).
SensorsStayVisible ==
    ~failed /\ queue = <<>> =>
        \A n \in 1..Len(sensors) :
            n <= at /\ (emitLegacy \/ ~HasAlias(sensors[n])) => SamplesOf(n) # {}

\* Two sensors whose names differ only in their numbers, in the number after
\* some word at least, never share a series, as long as the elements before
\* their numbers differ: no core, fan or slot overwrites another one's sample
\* (ProcessSensorName).
WordsBeforeNumbersDiffer(s) ==
    \A k, l \in NumberAt(s) : k # l => s[k - 1] # s[l - 1]
DifferInNumbers(s, t) ==
    /\ NumberAt(s) = NumberAt(t)
    /\ DOMAIN s = DOMAIN t
    /\ \A k \in DOMAIN s \ NumberAt(s) : s[k] = t[k]
    /\ \E k \in NumberAt(s) : k - 1 \notin NumberAt(s) /\ NumberOf[s[k]] # NumberOf[t[k]]
NumbersSeparate ==
    \A k, l \in Samples :
        LET m == lines[k].source
            n == lines[l].source
        IN  /\ m \in 1..Len(sensors)
            /\ n \in 1..Len(sensors)
            /\ sensors[m].labels = sensors[n].labels
            /\ DifferInNumbers(sensors[m].name, sensors[n].name)
            /\ WordsBeforeNumbersDiffer(sensors[m].name)
            /\ WordsBeforeNumbersDiffer(sensors[n].name)
            => Series(k) # Series(l)

\* No two SMART lines are of one series: the reports are of different devices,
\* an attribute's id tells it from others of its name (EmitSmartMetrics).
SmartSeriesUnique ==
    \A k, l \in Samples :
        k # l /\ lines[k].source > Len(sensors) /\ lines[l].source > Len(sensors)
            => Series(k) # Series(l)

-----------------------------------------------------------------------------
(* What a comment says, and the code does not do.                          *)

\* Metrics.cs:294-297: the legacy name is left out only where an alias keeps the
\* sensor visible, so that each sensor visited is in the response.
AliasKeepsVisible ==
    ~failed /\ queue = <<>> =>
        \A n \in 1..Len(sensors) : n <= at => SamplesOf(n) # {}
=============================================================================
