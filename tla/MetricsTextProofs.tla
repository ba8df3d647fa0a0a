-------------------------- MODULE MetricsTextProofs --------------------------
(***************************************************************************)
(* Proofs that every metric name has its header once, and which sensor may *)
(* be missing, whatever the names, the sensors and the reports: little     *)
(* is used of how samples are made, most of how they are written.          *)
(***************************************************************************)
EXTENDS MetricsText, SequenceLemmas

\* HeadersOnce, of any sequence of lines.
WellFormed(l) ==
    /\ l \in Seq({l[k] : k \in DOMAIN l})
    /\ \A k \in DOMAIN l : l[k].kind \in {"header", "sample"}
    /\ \A k \in DOMAIN l : l[k].kind = "sample" =>
          \E h \in 1..(k - 1) : l[h].kind = "header" /\ l[h].name = l[k].name
    /\ \A h, g \in DOMAIN l :
          l[h].kind = "header" /\ l[g].kind = "header" /\ l[h].name = l[g].name => h = g

NamesIn(l) == {l[k].name : k \in DOMAIN l}

\* The response is well formed and emittedMetrics is the set of its names.
IInv == WellFormed(lines) /\ emitted = NamesIn(lines)

\* A sequence is one of its own elements.
LEMMA OwnRange ==
    ASSUME NEW T, NEW s \in Seq(T)
    PROVE  s \in Seq(Range(s)) /\ Range(s) \subseteq T
<1>1. DOMAIN s = 1..Len(s) /\ Len(s) \in Nat /\ \A k \in 1..Len(s) : s[k] \in T  OBVIOUS
<1>2. \A k \in 1..Len(s) : s[k] \in Range(s)  BY <1>1 DEF Range
<1>3. Range(s) \subseteq T  BY <1>1 DEF Range
<1>4. s = [k \in 1..Len(s) |-> s[k]]  BY <1>1
<1> HIDE DEF Range
<1>5. s \in [1..Len(s) -> Range(s)]  BY <1>2, <1>4
<1>6. s \in Seq(Range(s))  BY <1>1, <1>5
<1> QED  BY <1>3, <1>6

\* A longer sequence: where its elements come from.
LEMMA Appended ==
  ASSUME NEW s, NEW t, s \in Seq({s[k] : k \in DOMAIN s}), NEW e,
         t = s \o <<e>>
  PROVE  /\ t \in Seq({t[k] : k \in DOMAIN t})
         /\ DOMAIN s = 1..Len(s) /\ Len(s) \in Nat
         /\ DOMAIN t = 1..(Len(s) + 1)
         /\ \A k \in 1..Len(s) : t[k] = s[k]
         /\ t[Len(s) + 1] = e
<1> DEFINE S == {s[k] : k \in DOMAIN s}
           U == S \union {e}
<1>1. s \in Seq(S)  OBVIOUS
<1> HIDE DEF S
<1>2. s \in Seq(U) /\ <<e>> \in Seq(U)  BY <1>1
<1> HIDE DEF U
<1>3. /\ DOMAIN s = 1..Len(s) /\ Len(s) \in Nat
      /\ Len(t) = Len(s) + 1
      /\ t \in Seq(U)
      /\ \A k \in 1..Len(s) : t[k] = s[k]
      /\ t[Len(s) + 1] = e
  BY <1>2
<1>4. DOMAIN t = 1..(Len(s) + 1)  BY <1>3
<1>5. t \in Seq({t[k] : k \in DOMAIN t})
  <2> DEFINE V == {t[k] : k \in DOMAIN t}
  <2>1. \A k \in 1..Len(t) : t[k] \in V  BY <1>3, <1>4
  <2>2. t = [k \in 1..Len(t) |-> t[k]] /\ Len(t) \in Nat  BY <1>3
  <2> HIDE DEF V
  <2>3. t \in [1..Len(t) -> V]  BY <2>1, <2>2
  <2>4. PICK n \in Nat : n = Len(t) /\ t \in [1..n -> V]  BY <2>2, <2>3
  <2>5. t \in UNION {[1..m -> V] : m \in Nat}  BY <2>4
  <2>6. t \in Seq(V)  BY <2>5, SeqDef, Zenon
  <2> QED  BY <2>6 DEF V
<1> QED  BY <1>3, <1>4, <1>5

\* A header of a new name may be added.
LEMMA AddHeader ==
  ASSUME NEW l, WellFormed(l), NEW n, n \notin NamesIn(l)
  PROVE  /\ WellFormed(l \o <<Header(n)>>)
         /\ NamesIn(l \o <<Header(n)>>) = NamesIn(l) \union {n}
<1> DEFINE t == l \o <<Header(n)>>
<1>1. l \in Seq({l[k] : k \in DOMAIN l})  BY DEF WellFormed
<1>2. /\ t \in Seq({t[k] : k \in DOMAIN t})
      /\ DOMAIN l = 1..Len(l) /\ Len(l) \in Nat
      /\ DOMAIN t = 1..(Len(l) + 1)
      /\ \A k \in 1..Len(l) : t[k] = l[k]
      /\ t[Len(l) + 1] = Header(n)
  BY <1>1, Appended
<1>3. Header(n).kind = "header" /\ Header(n).name = n  BY DEF Header
<1> HIDE DEF t
<1>4. NamesIn(t) = NamesIn(l) \union {n}  BY <1>2, <1>3 DEF NamesIn
<1>w. /\ \A k \in DOMAIN l : l[k].kind \in {"header", "sample"}
      /\ \A h, g \in DOMAIN l :
            l[h].kind = "header" /\ l[g].kind = "header" /\ l[h].name = l[g].name => h = g
  BY DEF WellFormed
<1>5. \A k \in DOMAIN t : t[k].kind \in {"header", "sample"}
  BY <1>2, <1>3, <1>w
<1>6. ASSUME NEW k \in DOMAIN t, t[k].kind = "sample"
      PROVE  \E h \in 1..(k - 1) : t[h].kind = "header" /\ t[h].name = t[k].name
  <2>1. k \in DOMAIN l  BY <1>2, <1>3, <1>6
  <2>2. PICK h \in 1..(k - 1) : l[h].kind = "header" /\ l[h].name = l[k].name
    BY <1>2, <1>6, <2>1 DEF WellFormed
  <2> QED  BY <1>2, <2>1, <2>2
<1>7. ASSUME NEW h \in DOMAIN t, NEW g \in DOMAIN t,
             t[h].kind = "header", t[g].kind = "header", t[h].name = t[g].name
      PROVE  h = g
  <2>1. \A k \in DOMAIN l : l[k].name # n  BY DEF NamesIn
  <2> QED  BY <1>2, <1>3, <1>7, <1>w, <2>1
<1>8. WellFormed(t)  BY <1>2, <1>5, <1>6, <1>7 DEF WellFormed
<1> QED  BY <1>4, <1>8 DEF t

\* A sample of a name that occurs may be added.
LEMMA AddSample ==
  ASSUME NEW l, WellFormed(l), NEW e, e.kind = "sample", e.name \in NamesIn(l)
  PROVE  WellFormed(l \o <<e>>) /\ NamesIn(l \o <<e>>) = NamesIn(l)
<1> DEFINE t == l \o <<e>>
<1>1. l \in Seq({l[k] : k \in DOMAIN l})  BY DEF WellFormed
<1>2. /\ t \in Seq({t[k] : k \in DOMAIN t})
      /\ DOMAIN l = 1..Len(l) /\ Len(l) \in Nat
      /\ DOMAIN t = 1..(Len(l) + 1)
      /\ \A k \in 1..Len(l) : t[k] = l[k]
      /\ t[Len(l) + 1] = e
  BY <1>1, Appended
<1> HIDE DEF t
<1>3. NamesIn(t) = NamesIn(l)  BY <1>2 DEF NamesIn
<1>w. /\ \A k \in DOMAIN l : l[k].kind \in {"header", "sample"}
      /\ \A h, g \in DOMAIN l :
            l[h].kind = "header" /\ l[g].kind = "header" /\ l[h].name = l[g].name => h = g
  BY DEF WellFormed
<1>4. \A k \in DOMAIN t : t[k].kind \in {"header", "sample"}
  BY <1>2, <1>w
<1>5. PICK m \in DOMAIN l : l[m].kind = "header" /\ l[m].name = e.name
  <2>1. PICK k \in DOMAIN l : l[k].name = e.name  BY DEF NamesIn
  <2>2. CASE l[k].kind = "header"  BY <2>1, <2>2
  <2>3. CASE l[k].kind = "sample"
    <3>1. PICK h \in 1..(k - 1) : l[h].kind = "header" /\ l[h].name = l[k].name
      BY <2>3 DEF WellFormed
    <3> QED  BY <1>2, <2>1, <3>1
  <2> QED  BY <2>2, <2>3 DEF WellFormed
<1>6. ASSUME NEW k \in DOMAIN t, t[k].kind = "sample"
      PROVE  \E h \in 1..(k - 1) : t[h].kind = "header" /\ t[h].name = t[k].name
  <2>1. CASE k \in DOMAIN l
    <3>1. PICK h \in 1..(k - 1) : l[h].kind = "header" /\ l[h].name = l[k].name
      BY <1>2, <1>6, <2>1 DEF WellFormed
    <3> QED  BY <1>2, <2>1, <3>1
  <2>2. CASE k = Len(l) + 1  BY <1>2, <1>5, <2>2
  <2> QED  BY <1>2, <2>1, <2>2
<1>7. ASSUME NEW h \in DOMAIN t, NEW g \in DOMAIN t,
             t[h].kind = "header", t[g].kind = "header", t[h].name = t[g].name
      PROVE  h = g
  BY <1>2, <1>7, <1>w
<1>8. WellFormed(t)  BY <1>2, <1>4, <1>6, <1>7 DEF WellFormed
<1> QED  BY <1>3, <1>8 DEF t

\* The empty response is well formed.
LEMMA EmptyIInv == ASSUME lines = <<>>, emitted = {} PROVE IInv
BY DEF IInv, WellFormed, NamesIn

\* What EmitSensorSample and EmitSmartLine share: a header if the name is new,
\* then the sample.
LEMMA WriteInv == ASSUME IInv, Write(NewHeader) PROVE IInv'
<1> DEFINE n == Head(queue).name
           e == [kind |-> "sample", name |-> n, labels |-> Head(queue).labels, source |-> at]
<1>1. lines' = lines \o NewHeader \o <<e>> /\ emitted' = emitted \union {n}
  BY DEF Write
<1>2. e.kind = "sample" /\ e.name = n  OBVIOUS
<1> HIDE DEF e
<1>3. CASE n \in emitted
  <2>1. lines \o NewHeader = lines
    BY <1>3 DEF NewHeader, IInv, WellFormed
  <2>2. WellFormed(lines \o <<e>>) /\ NamesIn(lines \o <<e>>) = NamesIn(lines)
    BY <1>2, <1>3, AddSample DEF IInv
  <2> QED  BY <1>1, <1>3, <2>1, <2>2 DEF IInv
<1>4. CASE n \notin emitted
  <2> DEFINE mid == lines \o <<Header(n)>>
  <2>1. NewHeader = <<Header(n)>>  BY <1>4 DEF NewHeader
  <2>2. WellFormed(mid) /\ NamesIn(mid) = NamesIn(lines) \union {n}
    BY <1>4, AddHeader DEF IInv
  <2> HIDE DEF mid
  <2>3. WellFormed(mid \o <<e>>) /\ NamesIn(mid \o <<e>>) = NamesIn(mid)
    BY <1>2, <2>2, AddSample
  <2>4. lines' = mid \o <<e>>  BY <1>1, <2>1 DEF mid
  <2> QED  BY <1>1, <2>2, <2>3, <2>4 DEF IInv
<1> QED  BY <1>3, <1>4

\* Every step of a scrape keeps the invariant.
LEMMA StepInv == IInv /\ [Next]_vars => IInv'
<1> SUFFICES ASSUME IInv, [Next]_vars PROVE IInv'  OBVIOUS
<1>1. CASE UNCHANGED <<lines, emitted>>  BY <1>1 DEF IInv, WellFormed, NamesIn
<1>2. CASE Write(NewHeader)  BY <1>2, WriteInv
<1>3. CASE ProcessSensorThrows
  BY <1>3, EmptyIInv DEF ProcessSensorThrows, IInv, WellFormed, NamesIn
<1> QED
  BY <1>1, <1>2, <1>3 DEF vars, Next, ProcessSensor, EmitSensorSample,
     EmitSmartMetrics, EmitSmartLine

\* HELP and TYPE are written once per metric name, before its first sample
\* (EmitSensorSample and EmitSmartLine share the set emittedMetrics).
THEOREM HeadersAreOnce == Spec => []HeadersOnce
<1>1. Init => IInv  BY EmptyIInv DEF Init
<1>2. IInv /\ [Next]_vars => IInv'  BY StepInv
<1>3. IInv => HeadersOnce
  BY DEF IInv, WellFormed, HeadersOnce, Samples
<1> QED  BY <1>1, <1>2, <1>3, PTL DEF Spec

-----------------------------------------------------------------------------
\* The sensors whose two names are the same, with legacy names off.
Hidden(sensor) ==
    /\ ~emitLegacy
    /\ HasAlias(sensor)
    /\ AliasName(sensor) = LegacyName(sensor)

\* A sensor that was visited is in the response, or its samples are next.
VisibleInv ==
    /\ sensors \in SensorInputs
    /\ at \in Nat
    /\ ~failed => \A n \in 1..Len(sensors) :
          \/ n > at
          \/ Hidden(sensors[n])
          \/ SamplesOf(n) # {}
          \/ n = at /\ queue # <<>>

\* ProcessSensor leaves out a sensor only if it is hidden.
LEMMA SamplesGiven ==
    ASSUME NEW sensor PROVE Hidden(sensor) \/ SensorSamples(sensor) # <<>>
<1> DEFINE labels == Joined(sensor.labels, SensorLabels(sensor))
           L == Sample(LegacyName(sensor), labels)
           A == Sample(AliasName(sensor), labels)
<1>1. SensorSamples(sensor) =
        (IF LegacyWanted(sensor) THEN <<L>> ELSE <<>>)
        \o (IF HasAlias(sensor) /\ AliasName(sensor) # LegacyName(sensor)
            THEN <<A>> ELSE <<>>)
  BY DEF SensorSamples
<1> HIDE DEF L, A
<1>2. /\ <<L>> \o <<A>> # <<>>
      /\ <<L>> \o <<>> # <<>>
      /\ <<>> \o <<A>> # <<>>
  <2>1. <<L>> \in Seq({L, A}) /\ <<A>> \in Seq({L, A}) /\ <<>> \in Seq({L, A})
    OBVIOUS
  <2>2. Len(<<L>> \o <<A>>) = 2 /\ Len(<<L>> \o <<>>) = 1 /\ Len(<<>> \o <<A>>) = 1
    BY <2>1
  <2> QED  BY <2>2
<1>3. ~Hidden(sensor) =>
        \/ LegacyWanted(sensor)
        \/ HasAlias(sensor) /\ AliasName(sensor) # LegacyName(sensor)
  BY DEF Hidden, LegacyWanted
<1> QED  BY <1>1, <1>2, <1>3

\* The line EmitSensorSample and EmitSmartLine write, and the lines after it.
Line == [kind |-> "sample", name |-> Head(queue).name,
         labels |-> Head(queue).labels, source |-> at]

LEMMA Written ==
    ASSUME IInv, Write(NewHeader)
    PROVE  /\ \A k \in DOMAIN lines : k \in DOMAIN lines' /\ lines'[k] = lines[k]
           /\ \E z \in DOMAIN lines' :
                 /\ z \notin DOMAIN lines
                 /\ lines'[z] = Line
                 /\ \A k \in DOMAIN lines' : \/ k \in DOMAIN lines
                                             \/ k = z
                                             \/ lines'[k] = Header(Head(queue).name)
<1> DEFINE head == Header(Head(queue).name)
           V == {lines[k] : k \in DOMAIN lines}
           U == V \union {Line, head}
<1>1. lines' = lines \o NewHeader \o <<Line>>  BY DEF Write, Line
<1>2. lines \in Seq(V)  BY DEF IInv, WellFormed
<1>3. NewHeader \in {<<>>, <<head>>}  BY DEF NewHeader
<1> HIDE DEF head, V
<1>4. lines \in Seq(U) /\ <<Line>> \in Seq(U) /\ <<head>> \in Seq(U) /\ <<>> \in Seq(U)
  BY <1>2
<1> HIDE DEF U
<1> DEFINE mid == lines \o NewHeader
<1>5. /\ mid \in Seq(U)
      /\ \A k \in DOMAIN lines : k \in DOMAIN mid /\ mid[k] = lines[k]
      /\ \A k \in DOMAIN mid : k \in DOMAIN lines \/ mid[k] = head
  <2>1. CASE NewHeader = <<>>  BY <1>4, <2>1
  <2>2. CASE NewHeader = <<head>>  BY <1>4, <2>2
  <2> QED  BY <1>3, <2>1, <2>2
<1>6. lines' = mid \o <<Line>>  BY <1>1
<1> HIDE DEF mid
<1> DEFINE z == Len(mid) + 1
<1>7. /\ \A k \in DOMAIN mid : k \in DOMAIN lines' /\ lines'[k] = mid[k]
      /\ z \in DOMAIN lines' /\ z \notin DOMAIN mid /\ lines'[z] = Line
      /\ \A k \in DOMAIN lines' : k \in DOMAIN mid \/ k = z
  BY <1>4, <1>5, <1>6
<1> HIDE DEF z
<1> QED  BY <1>5, <1>7 DEF head

\* Writing a line takes no sample away and adds one of the current source.
LEMMA WriteKeeps ==
    ASSUME IInv, Write(NewHeader), NEW n
    PROVE  (SamplesOf(n) # {} \/ n = at) => SamplesOf(n)' # {}
<1>1. Line.kind = "sample" /\ Line.source = at  BY DEF Line
<1>2. CASE n = at  BY <1>1, <1>2, Written DEF SamplesOf, Samples
<1>3. CASE SamplesOf(n) # {}  BY <1>3, Written DEF SamplesOf, Samples
<1> QED  BY <1>2, <1>3

\* Every step of a scrape keeps the visited sensors visible.
LEMMA StepVisible == IInv /\ VisibleInv /\ [Next]_vars => VisibleInv'
<1> SUFFICES ASSUME IInv, VisibleInv, [Next]_vars PROVE VisibleInv'  OBVIOUS
<1> USE DEF VisibleInv
<1>0. sensors' = sensors /\ Len(sensors) \in Nat
  BY SensorsAssumption DEF Next, vars, inputVars, ProcessSensor, ProcessSensorThrows,
     EmitSensorSample, EmitSmartMetrics, EmitSmartLine, Write
<1>h. ASSUME UNCHANGED emitLegacy, NEW n \in 1..Len(sensors)
      PROVE  Hidden(sensors[n])' <=> Hidden(sensors[n])
  BY <1>0, <1>h DEF Hidden, HasAlias, AliasName, LegacyName
<1>1. CASE ProcessSensor
  <2>1. Hidden(sensors[at + 1]) \/ queue' # <<>>
    BY <1>1, SamplesGiven DEF ProcessSensor
  <2>2. \A n \in 1..Len(sensors) : SamplesOf(n)' = SamplesOf(n)
    BY <1>1 DEF ProcessSensor, SamplesOf, Samples
  <2> QED  BY <1>0, <1>1, <1>h, <2>1, <2>2 DEF ProcessSensor, inputVars
<1>2. CASE ProcessSensorThrows  BY <1>0, <1>2 DEF ProcessSensorThrows, inputVars
<1>3. CASE EmitSmartMetrics
  <2>1. \A n \in 1..Len(sensors) : SamplesOf(n)' = SamplesOf(n)
    BY <1>3 DEF EmitSmartMetrics, SamplesOf, Samples
  <2> QED  BY <1>0, <1>3, <1>h, <2>1 DEF EmitSmartMetrics, inputVars
<1>4. CASE Write(NewHeader)
  BY <1>0, <1>4, <1>h, WriteKeeps DEF Write, inputVars
<1>5. CASE UNCHANGED vars
  BY <1>0, <1>5, <1>h DEF vars, SamplesOf, Samples
<1> QED  BY <1>1, <1>2, <1>3, <1>4, <1>5 DEF Next, EmitSensorSample, EmitSmartLine

LEMMA VisibleKept == Spec => []VisibleInv
<1>1. Init => IInv /\ VisibleInv
  BY EmptyIInv DEF Init, VisibleInv
<1>2. IInv /\ VisibleInv /\ [Next]_vars => IInv' /\ VisibleInv'
  BY StepInv, StepVisible
<1> QED  BY <1>1, <1>2, PTL DEF Spec

\* With legacy names on, and without an alias at any rate, every sensor visited
\* is in the response (ProcessSensor).
THEOREM LegacyVisible == Spec => []SensorsStayVisible
<1>1. VisibleInv => SensorsStayVisible
  BY DEF VisibleInv, SensorsStayVisible, Hidden
<1> QED  BY <1>1, VisibleKept, PTL

\* A sensor that is missing has an alias, which is its legacy name, and legacy
\* names are off: there is no other way to break AliasKeepsVisible.
THEOREM MissingIsSameNamed ==
    Spec => [](~failed /\ queue = <<>> =>
                  \A n \in 1..Len(sensors) :
                      n <= at /\ SamplesOf(n) = {} => Hidden(sensors[n]))
<1>1. VisibleInv =>
        (~failed /\ queue = <<>> =>
            \A n \in 1..Len(sensors) : n <= at /\ SamplesOf(n) = {} => Hidden(sensors[n]))
  BY DEF VisibleInv
<1> QED  BY <1>1, VisibleKept, PTL

-----------------------------------------------------------------------------
(* What a report gives: samples that are all different.                    *)

Words == Seq(STRING \union {"exit", "status"})
IsSample(x) == x = Sample(x.name, x.labels)

LEMMA SmartNameInjective ==
    ASSUME NEW f \in Words, NEW g \in Words, SmartName(f) = SmartName(g) PROVE f = g
<1> DEFINE h == <<"hardware", "storage", "smart">>
           T == STRING \union {"exit", "status", "hardware", "storage", "smart"}
<1>1. h \in Seq(T) /\ f \in Seq(T) /\ g \in Seq(T)  BY DEF Words
<1>2. h \o f = h \o g  BY DEF SmartName
<1> HIDE DEF h, T
<1> QED  BY <1>1, <1>2, ConcatCancel

\* The labels of a report and of its attributes, one by one.
LEMMA LabelFacts ==
    ASSUME NEW r, NEW a
    PROVE  /\ DOMAIN BaseLabels(r) = {"device", "model"}
           /\ BaseLabels(r)["device"] = r.device
           /\ DOMAIN AttributeLabels(r, a) = {"device", "model", "id", "name"}
           /\ AttributeLabels(r, a)["device"] = r.device
           /\ AttributeLabels(r, a)["id"] = a.id
           /\ AttributeLabels(r, a)["name"] = a.name
BY DEF BaseLabels, AttributeLabels, Joined

BaseSamples(r) == {BaseSample(r, f) : f \in Words}
AttributeSample(r, f, a) == Sample(SmartName(f), AttributeLabels(r, a))
AttributeSamples(r) == {AttributeSample(r, f, a) : f \in Words, a \in Range(r.table)}

\* Samples of a report are told apart by field, those of attributes also by
\* the attribute, and the two kinds by their labels.
LEMMA SampleFacts ==
    ASSUME NEW r
    PROVE  /\ \A x \in BaseSamples(r) \union AttributeSamples(r) :
                 IsSample(x) /\ x.labels["device"] = r.device
           /\ \A f, g \in Words : BaseSample(r, f) = BaseSample(r, g) => f = g
           /\ \A f, g \in Words : \A a, c :
                 AttributeSample(r, f, a) = AttributeSample(r, g, c)
                    => f = g /\ a.id = c.id /\ a.name = c.name
           /\ \A f, g, a : BaseSample(r, f) # AttributeSample(r, g, a)
<1> USE DEF IsSample, Sample
<1>1. \A f : /\ IsSample(BaseSample(r, f))
             /\ BaseSample(r, f).name = SmartName(f)
             /\ BaseSample(r, f).labels = BaseLabels(r)
  BY DEF BaseSample
<1>2. \A f, a : /\ IsSample(AttributeSample(r, f, a))
                /\ AttributeSample(r, f, a).name = SmartName(f)
                /\ AttributeSample(r, f, a).labels = AttributeLabels(r, a)
  BY DEF AttributeSample
<1>3. \A x \in BaseSamples(r) \union AttributeSamples(r) :
         IsSample(x) /\ x.labels["device"] = r.device
  BY <1>1, <1>2, LabelFacts DEF BaseSamples, AttributeSamples
<1>4. \A f, g \in Words : BaseSample(r, f) = BaseSample(r, g) => f = g
  BY <1>1, SmartNameInjective
<1>5. ASSUME NEW f \in Words, NEW g \in Words, NEW a, NEW c,
             AttributeSample(r, f, a) = AttributeSample(r, g, c)
      PROVE  f = g /\ a.id = c.id /\ a.name = c.name
  <2>1. SmartName(f) = SmartName(g) /\ AttributeLabels(r, a) = AttributeLabels(r, c)
    BY <1>2, <1>5
  <2> QED  BY <2>1, SmartNameInjective, LabelFacts
<1>6. ASSUME NEW f, NEW g, NEW a PROVE BaseSample(r, f) # AttributeSample(r, g, a)
  <2>1. DOMAIN BaseLabels(r) # DOMAIN AttributeLabels(r, a)  BY LabelFacts
  <2> QED  BY <1>1, <1>2, <2>1
<1> QED  BY <1>3, <1>4, <1>5, <1>6

\* A different field gives a different sample.
LEMMA OptionalFacts ==
    ASSUME NEW r, NEW fields \in Seq(Words), IsInjective(fields)
    PROVE  /\ Optional(r, fields) \in Seq(BaseSamples(r))
           /\ IsInjective(Optional(r, fields))
           /\ \A j \in DOMAIN Optional(r, fields) :
                 \E k \in DOMAIN fields : Optional(r, fields)[j] = BaseSample(r, fields[k])
<1> DEFINE T == BaseSamples(r)
           ss == [k \in DOMAIN fields |->
                     IF fields[k] \in r.fields THEN <<BaseSample(r, fields[k])>> ELSE <<>>]
<1>1. \A k \in DOMAIN fields : fields[k] \in Words /\ BaseSample(r, fields[k]) \in T
  BY DEF BaseSamples
<1>2. DOMAIN fields = 1..Len(fields) /\ Len(fields) \in Nat  OBVIOUS
<1> HIDE DEF T
<1>3. \A k \in DOMAIN fields : <<BaseSample(r, fields[k])>> \in Seq(T) /\ <<>> \in Seq(T)
  BY <1>1
<1>4. \A k \in DOMAIN fields : ss[k] \in Seq(T)  BY <1>3
<1>5. ss \in Seq(Seq(T))
  <2>1. ss \in [1..Len(fields) -> Seq(T)]  BY <1>2, <1>4
  <2> QED  BY <1>2, <2>1
<1>6. \A a \in DOMAIN ss : a \in DOMAIN fields /\
         \A b \in DOMAIN ss[a] : b = 1 /\ ss[a][b] = BaseSample(r, fields[a])
  OBVIOUS
<1>7. Distinct(ss)
  <2>1. \A a, c \in DOMAIN fields :
           BaseSample(r, fields[a]) = BaseSample(r, fields[c]) => a = c
    <3>1. \A f, g \in Words : BaseSample(r, f) = BaseSample(r, g) => f = g
      BY SampleFacts
    <3>2. \A a, c \in DOMAIN fields : fields[a] = fields[c] => a = c
      BY DEF IsInjective
    <3> QED  BY <1>1, <3>1, <3>2
  <2> HIDE DEF ss
  <2> QED  BY <1>6, <2>1 DEF Distinct
<1>8. Optional(r, fields) = FlattenSeq(ss)  BY DEF Optional
<1> HIDE DEF ss
<1>9. /\ FlattenSeq(ss) \in Seq(T)
      /\ IsInjective(FlattenSeq(ss))
      /\ \A j \in DOMAIN FlattenSeq(ss) :
            \E a \in DOMAIN ss : \E b \in DOMAIN ss[a] : FlattenSeq(ss)[j] = ss[a][b]
  BY <1>5, <1>7, FlattenFacts
<1> QED  BY <1>6, <1>8, <1>9 DEF T

\* No field of a report has the name of another one.
LEMMA FieldsAreWords ==
    /\ \A fields \in {CommonFields, AttributeFields, NvmeFields} :
          fields \in Seq(Words) /\ IsInjective(fields)
    /\ \A k \in DOMAIN CommonFields : CommonFields[k] # <<"exit", "status">>
    /\ \A k \in DOMAIN NvmeFields : NvmeFields[k] # <<"exit", "status">>
    /\ \A k \in DOMAIN CommonFields, l \in DOMAIN NvmeFields : CommonFields[k] # NvmeFields[l]
<1> DEFINE c == CommonFields
           v == NvmeFields
           e == << <<"exit", "status">> >>
           ec == e \o c
<1>1. Seq(STRING) \subseteq Words /\ <<"exit", "status">> \in Words  BY DEF Words
<1>2. /\ c \in Seq(Seq(STRING)) /\ v \in Seq(Seq(STRING))
      /\ AttributeFields \in Seq(Seq(STRING))
  BY FieldsAssumption
<1> HIDE DEF Words
<1>3. /\ c \in Seq(Words) /\ v \in Seq(Words) /\ AttributeFields \in Seq(Words)
      /\ e \in Seq(Words) /\ DOMAIN e = {1} /\ e[1] = <<"exit", "status">>
  BY <1>1, <1>2
<1>4. IsInjective(ec \o v) /\ IsInjective(AttributeFields)  BY FieldsAssumption
<1>5. /\ ec \in Seq(Words)
      /\ \A k \in DOMAIN e : k \in DOMAIN ec /\ ec[k] = e[k]
      /\ \A k \in DOMAIN c : Len(e) + k \in DOMAIN ec /\ ec[Len(e) + k] = c[k]
  BY <1>3
<1> HIDE DEF c, v, e, ec
<1>6. /\ IsInjective(ec) /\ IsInjective(v)
      /\ \A j \in DOMAIN ec, l \in DOMAIN v : ec[j] # v[l]
  BY <1>3, <1>4, <1>5, ConcatParts
<1>7. IsInjective(c) /\ \A j \in DOMAIN e, l \in DOMAIN c : e[j] # c[l]
  BY <1>3, <1>6, ConcatParts DEF ec
<1>8. \A l \in DOMAIN v : v[l] # <<"exit", "status">>  BY <1>3, <1>5, <1>6
<1>9. \A l \in DOMAIN c : c[l] # <<"exit", "status">>  BY <1>3, <1>7
<1>10. \A k \in DOMAIN c, l \in DOMAIN v : c[k] # v[l]  BY <1>5, <1>6
<1>11. \A fields \in {c, AttributeFields, v} : fields \in Seq(Words) /\ IsInjective(fields)
  BY <1>3, <1>4, <1>6, <1>7
<1> QED  BY <1>8, <1>9, <1>10, <1>11 DEF c, v

\* A different field or attribute gives a different sample.
LEMMA TableFacts ==
    ASSUME NEW r, r.table \in Seq(Range(r.table)),
           \A j, k \in DOMAIN r.table :
              r.table[j].id = r.table[k].id /\ r.table[j].name = r.table[k].name => j = k
    PROVE  /\ OfTable(r) \in Seq(AttributeSamples(r))
           /\ IsInjective(OfTable(r))
<1> DEFINE T == AttributeSamples(r)
           t == r.table
           n == Len(AttributeFields)
           ss == [k \in DOMAIN t |-> OfAttribute(r, t[k])]
<1>1. /\ AttributeFields \in Seq(Words)
      /\ DOMAIN AttributeFields = 1..n /\ n \in Nat
      /\ \A a, c \in 1..n : AttributeFields[a] = AttributeFields[c] => a = c
      /\ \A a \in 1..n : AttributeFields[a] \in Words
  BY FieldsAreWords DEF IsInjective
<1>2. DOMAIN t = 1..Len(t) /\ Len(t) \in Nat  OBVIOUS
<1>3. \A k \in DOMAIN t : t[k] \in Range(t)  BY DEF Range
<1>4. \A k \in DOMAIN t :
         OfAttribute(r, t[k]) = [i \in 1..n |-> AttributeSample(r, AttributeFields[i], t[k])]
  BY <1>1 DEF OfAttribute, AttributeSample
<1>5. \A k \in DOMAIN t, i \in 1..n : AttributeSample(r, AttributeFields[i], t[k]) \in T
  BY <1>1, <1>3 DEF AttributeSamples
<1> HIDE DEF T
<1>6. \A k \in DOMAIN t : OfAttribute(r, t[k]) \in Seq(T)
  <2> TAKE k \in DOMAIN t
  <2>1. OfAttribute(r, t[k]) \in [1..n -> T]  BY <1>4, <1>5
  <2> QED  BY <1>1, <2>1
<1>7. ss \in Seq(Seq(T))
  <2>1. ss \in [1..Len(t) -> Seq(T)]  BY <1>2, <1>6
  <2> QED  BY <1>2, <2>1
<1>8. \A a \in DOMAIN ss : a \in DOMAIN t /\ DOMAIN ss[a] = 1..n /\
         \A b \in 1..n : ss[a][b] = AttributeSample(r, AttributeFields[b], t[a])
  BY <1>4
<1>9. Distinct(ss)
  <2> HIDE DEF ss
  <2> SUFFICES ASSUME NEW a \in DOMAIN ss, NEW c \in DOMAIN ss,
                      NEW b \in DOMAIN ss[a], NEW d \in DOMAIN ss[c], ss[a][b] = ss[c][d]
               PROVE  a = c /\ b = d
    BY DEF Distinct
  <2>1. AttributeSample(r, AttributeFields[b], t[a]) = AttributeSample(r, AttributeFields[d], t[c])
    BY <1>8
  <2>2. b \in 1..n /\ d \in 1..n /\ a \in DOMAIN t /\ c \in DOMAIN t  BY <1>8
  <2>3. AttributeFields[b] = AttributeFields[d] /\ t[a].id = t[c].id /\ t[a].name = t[c].name
    BY <1>1, <2>1, <2>2, SampleFacts
  <2> QED  BY <1>1, <2>2, <2>3
<1>10. OfTable(r) = FlattenSeq(ss)  BY DEF OfTable
<1> HIDE DEF ss
<1> QED  BY <1>7, <1>9, <1>10, FlattenFacts DEF T

SmartSet(r) == BaseSamples(r) \union AttributeSamples(r)

\* What EmitSmartMetrics makes of one report: samples that are all different.
LEMMA SmartFacts ==
    ASSUME NEW r, r.table \in Seq(Range(r.table)),
           \A j, k \in DOMAIN r.table :
              r.table[j].id = r.table[k].id /\ r.table[j].name = r.table[k].name => j = k
    PROVE  SmartSamples(r) \in Seq(SmartSet(r)) /\ IsInjective(SmartSamples(r))
<1> DEFINE T == SmartSet(r)
           exit == <<"exit", "status">>
           e == <<BaseSample(r, exit)>>
           c == Optional(r, CommonFields)
           t == OfTable(r)
           v == Optional(r, NvmeFields)
           B == BaseSamples(r)
<1>1. exit \in Words  BY DEF Words
<1>2. e \in Seq(B) /\ IsInjective(e)
  <2>1. BaseSample(r, exit) \in B  BY <1>1 DEF BaseSamples
  <2> QED  BY <2>1 DEF IsInjective
<1>3. /\ c \in Seq(B) /\ IsInjective(c)
      /\ \A j \in DOMAIN c : \E k \in DOMAIN CommonFields : c[j] = BaseSample(r, CommonFields[k])
  BY FieldsAreWords, OptionalFacts
<1>4. /\ v \in Seq(B) /\ IsInjective(v)
      /\ \A j \in DOMAIN v : \E k \in DOMAIN NvmeFields : v[j] = BaseSample(r, NvmeFields[k])
  BY FieldsAreWords, OptionalFacts
<1>5. t \in Seq(AttributeSamples(r)) /\ IsInjective(t)  BY TableFacts
<1>6. \A x \in B, y \in AttributeSamples(r) : x # y
  BY SampleFacts DEF BaseSamples, AttributeSamples
<1>f. \A f, g \in Words : BaseSample(r, f) = BaseSample(r, g) => f = g  BY SampleFacts
<1>7. \A j \in DOMAIN c : e[1] # c[j]
  <2>1. \A k \in DOMAIN CommonFields : CommonFields[k] \in Words /\ CommonFields[k] # exit
    BY FieldsAreWords
  <2> QED  BY <1>1, <1>3, <1>f, <2>1
<1>8. \A j \in DOMAIN v : e[1] # v[j]
  <2>1. \A k \in DOMAIN NvmeFields : NvmeFields[k] \in Words /\ NvmeFields[k] # exit
    BY FieldsAreWords
  <2> QED  BY <1>1, <1>4, <1>f, <2>1
<1>9. \A j \in DOMAIN c, l \in DOMAIN v : c[j] # v[l]
  <2>1. \A k \in DOMAIN CommonFields, l \in DOMAIN NvmeFields :
           /\ CommonFields[k] \in Words /\ NvmeFields[l] \in Words
           /\ CommonFields[k] # NvmeFields[l]
    BY FieldsAreWords
  <2> QED  BY <1>3, <1>4, <1>f, <2>1
<1>10. SmartSamples(r) = ((e \o c) \o t) \o v  BY DEF SmartSamples
<1>11. DOMAIN e = {1}  OBVIOUS
<1> HIDE DEF e, c, t, v, B
<1> DEFINE ec == e \o c
           ect == ec \o t
<1>12. /\ ec \in Seq(B) /\ IsInjective(ec)
       /\ \A k \in DOMAIN ec : (\E j \in DOMAIN e : ec[k] = e[j]) \/ (\E j \in DOMAIN c : ec[k] = c[j])
  BY <1>2, <1>3, <1>7, <1>11, ConcatFacts
<1>13. \A j \in DOMAIN ec, l \in DOMAIN v : ec[j] # v[l]
  BY <1>8, <1>9, <1>11, <1>12
<1> HIDE DEF ec
<1>14. /\ ec \in Seq(T) /\ t \in Seq(T) /\ v \in Seq(T)
  BY <1>4, <1>5, <1>12 DEF SmartSet, B
<1>15. \A j \in DOMAIN ec, l \in DOMAIN t : ec[j] # t[l]
  <2>1. \A j \in DOMAIN ec : ec[j] \in B  BY <1>12
  <2>2. \A j \in DOMAIN t : t[j] \in AttributeSamples(r)  BY <1>5
  <2> QED  BY <1>6, <2>1, <2>2
<1>16. \A j \in DOMAIN t, l \in DOMAIN v : t[j] # v[l]
  <2>1. \A j \in DOMAIN v : v[j] \in B  BY <1>4
  <2>2. \A j \in DOMAIN t : t[j] \in AttributeSamples(r)  BY <1>5
  <2> QED  BY <1>6, <2>1, <2>2
<1> HIDE DEF T
<1>17. /\ ect \in Seq(T) /\ IsInjective(ect)
       /\ \A k \in DOMAIN ect : (\E j \in DOMAIN ec : ect[k] = ec[j]) \/ (\E j \in DOMAIN t : ect[k] = t[j])
  BY <1>5, <1>12, <1>14, <1>15, ConcatFacts
<1>18. \A j \in DOMAIN ect, l \in DOMAIN v : ect[j] # v[l]
  BY <1>13, <1>16, <1>17
<1> HIDE DEF ect
<1>19. ect \o v \in Seq(T) /\ IsInjective(ect \o v)
  BY <1>4, <1>14, <1>17, <1>18, ConcatFacts
<1> QED  BY <1>10, <1>19 DEF T, ect, ec

-----------------------------------------------------------------------------
(* Where the lines come from.                                              *)

\* What ProcessSensor and EmitSmartMetrics queue at source n.
Given(n) ==
    IF n <= Len(sensors) THEN SensorSamples(sensors[n])
    ELSE SmartSamples(reports[n - Len(sensors)])

OfLine(k) == Sample(lines[k].name, lines[k].labels)

\* A sample queued is one the current source gives.
QueueInv ==
    /\ queue \in Seq(Range(queue))
    /\ \A k \in DOMAIN queue : at # 0 /\ queue[k] \in Range(Given(at))

\* A sample written is one its source gives.
LinesInv ==
    \A k \in DOMAIN lines :
        \/ lines[k].kind = "header" /\ lines[k].source = 0
        \/ /\ lines[k].kind = "sample"
           /\ lines[k].source \in 1..at
           /\ OfLine(k) \in Range(Given(lines[k].source))

\* No sensor visited has a key of labels twice.
NoClash == \A n \in 1..at : n <= Len(sensors) => ~LabelsClash(sensors[n])

InputsOK ==
    /\ emitLegacy \in BOOLEAN
    /\ failed \in BOOLEAN
    /\ sensors \in SensorInputs
    /\ reports \in ReportInputs
    /\ at \in 0..Sources

SourceInv == InputsOK /\ QueueInv /\ LinesInv /\ NoClash

\* A sensor gives a sequence of samples, all with its labels.
LEMMA SensorFacts ==
    ASSUME NEW sensor
    PROVE  /\ SensorSamples(sensor) \in Seq(Range(SensorSamples(sensor)))
           /\ \A x \in Range(SensorSamples(sensor)) :
                 /\ IsSample(x)
                 /\ x.labels = Joined(sensor.labels, SensorLabels(sensor))
<1> DEFINE labels == Joined(sensor.labels, SensorLabels(sensor))
           L == Sample(LegacyName(sensor), labels)
           A == Sample(AliasName(sensor), labels)
<1>1. \A x \in {L, A} : IsSample(x) /\ x.labels = labels  BY DEF Sample, IsSample
<1>2. PICK s, t : /\ s \in {<<>>, <<L>>} /\ t \in {<<>>, <<A>>}
                  /\ SensorSamples(sensor) = s \o t
  BY DEF SensorSamples
<1> HIDE DEF L, A, labels
<1>3. s \o t \in Seq({L, A})
  <2>1. <<>> \in Seq({L, A}) /\ <<L>> \in Seq({L, A}) /\ <<A>> \in Seq({L, A})  OBVIOUS
  <2>2. s \in Seq({L, A}) /\ t \in Seq({L, A})  BY <1>2, <2>1
  <2> QED  BY <2>2
<1>4. SensorSamples(sensor) \in Seq(Range(SensorSamples(sensor)))
      /\ Range(SensorSamples(sensor)) \subseteq {L, A}
  BY <1>2, <1>3, OwnRange
<1> QED  BY <1>1, <1>4 DEF labels

\* What every source gives: samples in sequence, of a report all different.
LEMMA GivenFacts ==
    ASSUME sensors \in SensorInputs, reports \in ReportInputs, NEW n \in 1..Sources
    PROVE  /\ Given(n) \in Seq(Range(Given(n)))
           /\ \A x \in Range(Given(n)) : IsSample(x)
           /\ n > Len(sensors) =>
                 /\ IsInjective(Given(n))
                 /\ n - Len(sensors) \in DOMAIN reports
                 /\ \A x \in Range(Given(n)) :
                       x.labels["device"] = reports[n - Len(sensors)].device
<1>0. Len(sensors) \in Nat /\ Len(reports) \in Nat /\ DOMAIN reports = 1..Len(reports)
  BY SensorsAssumption, ReportsAssumption
<1>1. CASE n <= Len(sensors)
  <2>1. Given(n) = SensorSamples(sensors[n])  BY <1>1 DEF Given
  <2> QED  BY <1>0, <1>1, <2>1, SensorFacts DEF Sources
<1>2. CASE ~ (n <= Len(sensors))
  <2> DEFINE r == reports[n - Len(sensors)]
  <2>1. Given(n) = SmartSamples(r)  BY <1>2 DEF Given
  <2>2. n - Len(sensors) \in DOMAIN reports  BY <1>0, <1>2 DEF Sources
  <2>3. /\ r.table \in Seq(Range(r.table))
        /\ \A j, k \in DOMAIN r.table :
              r.table[j].id = r.table[k].id /\ r.table[j].name = r.table[k].name => j = k
    BY <2>2, ReportsAssumption
  <2> HIDE DEF r
  <2>4. SmartSamples(r) \in Seq(SmartSet(r)) /\ IsInjective(SmartSamples(r))
    BY <2>3, SmartFacts
  <2>5. /\ SmartSamples(r) \in Seq(Range(SmartSamples(r)))
        /\ Range(SmartSamples(r)) \subseteq SmartSet(r)
    BY <2>4, OwnRange
  <2>6. \A x \in SmartSet(r) : IsSample(x) /\ x.labels["device"] = r.device
    BY SampleFacts DEF SmartSet
  <2> QED  BY <2>1, <2>2, <2>4, <2>5, <2>6 DEF r
<1> QED  BY <1>1, <1>2

\* The inputs of a scrape stay what they are, and so does what they give.
LEMMA InputsStay ==
    ASSUME [Next]_vars, NEW n
    PROVE  /\ UNCHANGED inputVars
           /\ Given(n)' = Given(n)
<1>1. UNCHANGED inputVars
  BY DEF Next, vars, inputVars, ProcessSensor, ProcessSensorThrows, EmitSensorSample,
     EmitSmartMetrics, EmitSmartLine, Write
<1> QED  BY <1>1 DEF inputVars, Given, SensorSamples, LegacyWanted

\* ProcessSensor and EmitSmartMetrics queue what the next source gives.
LEMMA Visits ==
    ASSUME SourceInv, ProcessSensor \/ EmitSmartMetrics
    PROVE  /\ at' = at + 1 /\ at \in Nat /\ at + 1 \in 1..Sources
           /\ queue = <<>> /\ queue' = Given(at + 1)
           /\ UNCHANGED <<inputVars, lines, failed>>
<1>0. /\ Len(sensors) \in Nat /\ Len(reports) \in Nat /\ Sources = Len(sensors) + Len(reports)
      /\ at \in 0..Sources
  BY SensorsAssumption, ReportsAssumption DEF SourceInv, InputsOK, Sources
<1>1. CASE ProcessSensor  BY <1>0, <1>1 DEF ProcessSensor, Given
<1>2. CASE EmitSmartMetrics  BY <1>0, <1>2 DEF EmitSmartMetrics, Given
<1> QED  BY <1>1, <1>2

\* The first sample of the queue is written, the others stay.
LEMMA Takes ==
    ASSUME SourceInv, queue # <<>>, queue' = Tail(queue)
    PROVE  /\ queue' \in Seq(Range(queue'))
           /\ 1 \in DOMAIN queue /\ Head(queue) = queue[1]
           /\ \A k \in DOMAIN queue' : k + 1 \in DOMAIN queue /\ queue'[k] = queue[k + 1]
           /\ Sample(Line.name, Line.labels) = Head(queue)
<1>1. queue \in Seq(Range(queue)) /\ Len(queue) \in Nat \ {0}  BY DEF SourceInv, QueueInv
<1> DEFINE T == Range(queue)
<1> HIDE DEF T
<1>2. queue \in Seq(T)  BY <1>1 DEF T
<1>3. /\ queue' \in Seq(T)
      /\ 1 \in DOMAIN queue /\ Head(queue) = queue[1]
      /\ \A k \in DOMAIN queue' : k + 1 \in DOMAIN queue /\ queue'[k] = queue[k + 1]
  BY <1>1, <1>2
<1>4. queue' \in Seq(Range(queue'))  BY <1>3, OwnRange
<1>5. Head(queue) = Sample(Line.name, Line.labels)
  <2>1. at \in 1..Sources /\ queue[1] \in Range(Given(at))
    BY <1>3, SensorsAssumption, ReportsAssumption DEF SourceInv, InputsOK, QueueInv, Sources
  <2>2. IsSample(queue[1])  BY <2>1, GivenFacts DEF SourceInv, InputsOK
  <2> QED  BY <1>3, <2>2 DEF IsSample, Sample, Line
<1> QED  BY <1>3, <1>4, <1>5

\* Every step of a scrape keeps the samples those of their sources.
LEMMA StepSource == IInv /\ SourceInv /\ [Next]_vars => SourceInv'
<1> SUFFICES ASSUME IInv, SourceInv, [Next]_vars PROVE SourceInv'  OBVIOUS
<1> USE DEF SourceInv
<1>0. /\ UNCHANGED inputVars /\ sensors' = sensors /\ reports' = reports
      /\ emitLegacy' = emitLegacy /\ Sources' = Sources
      /\ \A n : Given(n)' = Given(n)
  BY InputsStay DEF inputVars, Sources
<1>c. \A n : LabelsClash(sensors[n])' = LabelsClash(sensors[n])
  BY <1>0 DEF LabelsClash, SensorLabels
<1>i. /\ at \in 0..Sources /\ Sources \in Nat /\ Len(sensors) \in Nat
  BY <1>0, SensorsAssumption, ReportsAssumption DEF InputsOK, Sources
<1>1. CASE ProcessSensor \/ EmitSmartMetrics
  <2>1. /\ at' = at + 1 /\ at + 1 \in 1..Sources /\ queue' = Given(at + 1)
        /\ lines' = lines /\ failed' = failed
    BY <1>1, Visits
  <2>2. InputsOK'  BY <1>0, <1>i, <2>1 DEF InputsOK
  <2>3. QueueInv'
    <3>1. queue' \in Seq(Range(queue'))  BY <2>1, GivenFacts DEF InputsOK
    <3>2. \A k \in DOMAIN queue' : queue'[k] \in Range(Given(at + 1))
      BY <2>1 DEF Range
    <3>3. Given(at)' = Given(at + 1)  BY <1>0, <2>1
    <3> QED  BY <1>i, <2>1, <3>1, <3>2, <3>3 DEF QueueInv
  <2>4. NoClash'
    <3>1. \A n \in 1..at : n <= Len(sensors) => ~LabelsClash(sensors[n])  BY DEF NoClash
    <3>2. at + 1 <= Len(sensors) => ~LabelsClash(sensors[at + 1])
      BY <1>1, <1>i DEF ProcessSensor, EmitSmartMetrics
    <3>3. \A n \in 1..(at + 1) : n \in 1..at \/ n = at + 1  BY <1>i
    <3> QED  BY <1>0, <1>c, <2>1, <3>1, <3>2, <3>3 DEF NoClash
  <2>5. LinesInv'
    <3>1. \A n \in 1..at : n \in 1..(at + 1)  BY <1>i
    <3> QED  BY <1>0, <2>1, <3>1 DEF LinesInv, OfLine
  <2> QED  BY <2>2, <2>3, <2>4, <2>5
<1>2. CASE ProcessSensorThrows
  <2>1. queue' = queue /\ queue = <<>> /\ lines' = <<>> /\ at' = at /\ failed' = TRUE
    BY <1>2 DEF ProcessSensorThrows
  <2> QED  BY <1>0, <1>c, <2>1 DEF InputsOK, QueueInv, LinesInv, NoClash
<1>3. CASE queue # <<>> /\ Write(NewHeader)
  <2>1. queue # <<>> /\ queue' = Tail(queue) /\ at' = at /\ failed' = failed
    BY <1>3 DEF Write
  <2>2. /\ queue' \in Seq(Range(queue'))
        /\ 1 \in DOMAIN queue /\ Head(queue) = queue[1]
        /\ \A k \in DOMAIN queue' : k + 1 \in DOMAIN queue /\ queue'[k] = queue[k + 1]
        /\ Sample(Line.name, Line.labels) = Head(queue)
    BY <2>1, Takes
  <2>3. \A k \in DOMAIN queue : at # 0 /\ queue[k] \in Range(Given(at))  BY DEF QueueInv
  <2>4. Given(at)' = Given(at)  BY <1>0, <2>1
  <2>5. QueueInv'  BY <2>1, <2>2, <2>3, <2>4 DEF QueueInv
  <2>6. LinesInv'
    <3> SUFFICES ASSUME NEW k \in DOMAIN lines'
                 PROVE  \/ lines'[k].kind = "header" /\ lines'[k].source = 0
                        \/ /\ lines'[k].kind = "sample"
                           /\ lines'[k].source \in 1..at
                           /\ Sample(lines'[k].name, lines'[k].labels)
                                 \in Range(Given(lines'[k].source))
      BY <1>0, <2>1 DEF LinesInv, OfLine
    <3>1. PICK z \in DOMAIN lines' :
             /\ lines'[z] = Line
             /\ k \in DOMAIN lines \/ k = z \/ lines'[k] = Header(Head(queue).name)
      BY <1>3, Written
    <3>2. CASE k \in DOMAIN lines
      <4>1. lines'[k] = lines[k]  BY <1>3, <3>2, Written
      <4> QED  BY <3>2, <4>1 DEF LinesInv, OfLine
    <3>3. CASE k = z
      <4>1. Line.kind = "sample" /\ Line.source = at  BY DEF Line
      <4> QED  BY <1>i, <2>2, <2>3, <3>1, <3>3, <4>1
    <3>4. CASE lines'[k] = Header(Head(queue).name)  BY <3>4 DEF Header
    <3> QED  BY <3>1, <3>2, <3>3, <3>4
  <2> QED  BY <1>0, <1>c, <2>1, <2>5, <2>6 DEF InputsOK, NoClash
<1>4. CASE UNCHANGED vars
  BY <1>0, <1>4, <1>c DEF vars, InputsOK, QueueInv, LinesInv, NoClash, OfLine
<1> QED  BY <1>1, <1>2, <1>3, <1>4 DEF Next, EmitSensorSample, EmitSmartLine

\* Every sample comes from its source all along a scrape.
LEMMA SourcesKept == Spec => [](IInv /\ SourceInv)
<1>1. Init => IInv /\ SourceInv
  <2> SUFFICES ASSUME Init PROVE SourceInv  BY EmptyIInv DEF Init
  <2>1. 0 \in 0..Sources /\ 1..0 = {}
    BY SensorsAssumption, ReportsAssumption DEF Init, Sources
  <2>2. QueueInv
    <3>1. \A S : <<>> \in Seq(S)  OBVIOUS
    <3> QED  BY <3>1 DEF Init, QueueInv
  <2>3. InputsOK  BY <2>1 DEF Init, InputsOK
  <2>4. LinesInv  BY DEF Init, LinesInv
  <2>5. NoClash
    <3>1. at = 0  BY DEF Init
    <3> QED  BY <2>1, <3>1 DEF NoClash
  <2> QED  BY <2>2, <2>3, <2>4, <2>5 DEF SourceInv
<1>2. IInv /\ SourceInv /\ [Next]_vars => IInv' /\ SourceInv'
  BY StepInv, StepSource
<1> QED  BY <1>1, <1>2, PTL DEF Spec

\* The scrape is at one of its sources, emittedMetrics is the set of the names
\* written and every line is a header or a sample of a source already visited
\* (Build, ProcessHardware, EmitSmartMetrics).
THEOREM TypeCorrect == Spec => []TypeOK
<1>1. IInv /\ SourceInv => TypeOK
  <2> SUFFICES ASSUME IInv, SourceInv PROVE TypeOK  OBVIOUS
  <2>1. at \in Nat /\ \A k \in DOMAIN queue : at # 0 /\ at \in 1..Sources
    BY SensorsAssumption, ReportsAssumption DEF SourceInv, InputsOK, QueueInv, Sources
  <2>2. \A k \in DOMAIN queue : IsSample(queue[k])
    BY <2>1, GivenFacts DEF SourceInv, InputsOK, QueueInv
  <2>3. \A k \in DOMAIN queue : DOMAIN queue[k] = {"name", "labels"}
    <3>1. \A x : IsSample(x) => DOMAIN x = {"name", "labels"}  BY DEF IsSample, Sample
    <3> QED  BY <2>2, <3>1
  <2>4. \A k \in DOMAIN lines : lines[k].kind \in {"header", "sample"} /\ lines[k].source \in 0..at
    BY <2>1 DEF SourceInv, LinesInv
  <2> QED  BY <2>3, <2>4 DEF TypeOK, SourceInv, InputsOK, IInv, NamesIn
<1> QED  BY <1>1, SourcesKept, PTL

\* The sensors are numbered before the reports, so a sample of a sensor is one
\* SensorSamples gives, with its labels.
LEMMA OfSensor ==
    ASSUME SourceInv, NEW k \in Samples, lines[k].source \in 1..Len(sensors)
    PROVE  LET sensor == sensors[lines[k].source]
           IN  /\ lines[k].labels = Joined(sensor.labels, SensorLabels(sensor))
               /\ ~LabelsClash(sensor)
<1> DEFINE n == lines[k].source
<1>1. n \in 1..at /\ OfLine(k) \in Range(Given(n)) /\ n <= Len(sensors)
  BY SensorsAssumption DEF SourceInv, InputsOK, LinesInv, Samples
<1>2. Given(n) = SensorSamples(sensors[n])  BY <1>1 DEF Given
<1>3. OfLine(k).labels = lines[k].labels  BY DEF OfLine, Sample
<1> QED  BY <1>1, <1>2, <1>3, SensorFacts DEF SourceInv, NoClash

\* The value of the label that a number of a name becomes, when the element
\* before it stands before no other number.
LEMMA NumberLabel ==
    ASSUME NEW sensor, sensor.name \in Seq(Range(sensor.name)), ~LabelsClash(sensor),
           WordsBeforeNumbersDiffer(sensor.name), NEW k \in NumberAt(sensor.name)
    PROVE  Joined(sensor.labels, SensorLabels(sensor))[sensor.name[k - 1]]
              = NumberOf[sensor.name[k]]
<1> DEFINE s == sensor.name
           key == s[k - 1]
           same == {l \in NumberAt(s) : s[l - 1] = key}
<1>1. \A l \in NumberAt(s) : l \in Nat  BY DEF NumberAt
<1>2. same = {k}  BY DEF WordsBeforeNumbersDiffer
<1>3. \A j \in same : (\A l \in same : l <= j) <=> j = k  BY <1>1, <1>2
<1>4. (CHOOSE j \in same : \A l \in same : l <= j) = k  BY <1>2, <1>3
<1>5. key \in DOMAIN NumberLabels(s) /\ NumberLabels(s)[key] = NumberOf[s[k]]
  BY <1>4 DEF NumberLabels
<1> HIDE DEF same, key, s
<1>6. key \in DOMAIN SensorLabels(sensor) /\ SensorLabels(sensor)[key] = NumberOf[s[k]]
  BY <1>5 DEF SensorLabels, Joined, s
<1>7. key \notin DOMAIN sensor.labels  BY <1>6 DEF LabelsClash
<1> QED  BY <1>6, <1>7 DEF Joined, key, s

\* Sensors told apart by the number after some word have different labels,
\* whatever their metric names (ProcessSensorName, BuildLabels).
THEOREM NumbersAreSeparate == Spec => []NumbersSeparate
<1>1. SourceInv => NumbersSeparate
  <2> SUFFICES ASSUME SourceInv, NEW k \in Samples, NEW l \in Samples,
                      lines[k].source \in 1..Len(sensors), lines[l].source \in 1..Len(sensors),
                      sensors[lines[k].source].labels = sensors[lines[l].source].labels,
                      DifferInNumbers(sensors[lines[k].source].name, sensors[lines[l].source].name),
                      WordsBeforeNumbersDiffer(sensors[lines[k].source].name),
                      WordsBeforeNumbersDiffer(sensors[lines[l].source].name)
               PROVE  lines[k].labels # lines[l].labels
    BY DEF NumbersSeparate, Series
  <2> DEFINE u == sensors[lines[k].source]
             v == sensors[lines[l].source]
  <2>1. /\ lines[k].labels = Joined(u.labels, SensorLabels(u)) /\ ~LabelsClash(u)
        /\ lines[l].labels = Joined(v.labels, SensorLabels(v)) /\ ~LabelsClash(v)
    BY OfSensor
  <2>2. u.name \in Seq(Range(u.name)) /\ v.name \in Seq(Range(v.name))
    BY SensorsAssumption DEF SourceInv, InputsOK
  <2>3. DifferInNumbers(u.name, v.name)  OBVIOUS
  <2>4. WordsBeforeNumbersDiffer(u.name) /\ WordsBeforeNumbersDiffer(v.name)  OBVIOUS
  <2> HIDE DEF u, v
  <2>5. PICK j \in NumberAt(u.name) :
           j - 1 \notin NumberAt(u.name) /\ NumberOf[u.name[j]] # NumberOf[v.name[j]]
    BY <2>3 DEF DifferInNumbers
  <2>6. j \in NumberAt(v.name) /\ u.name[j - 1] = v.name[j - 1]
    <3>1. j - 1 \in DOMAIN u.name  BY <2>2 DEF NumberAt
    <3> QED  BY <2>3, <2>5, <3>1 DEF DifferInNumbers
  <2>7. /\ lines[k].labels[u.name[j - 1]] = NumberOf[u.name[j]]
        /\ lines[l].labels[v.name[j - 1]] = NumberOf[v.name[j]]
    BY <2>1, <2>2, <2>4, <2>6, NumberLabel
  <2> QED  BY <2>5, <2>6, <2>7
<1> QED  BY <1>1, SourcesKept, PTL

-----------------------------------------------------------------------------
\* No SMART sample is written or queued twice.
UniqueInv ==
    /\ at > Len(sensors) =>
          /\ IsInjective(queue)
          /\ \A j \in DOMAIN queue, k \in SamplesOf(at) : queue[j] # OfLine(k)
    /\ \A k, l \in Samples :
          /\ k # l
          /\ lines[k].source > Len(sensors)
          /\ lines[k].source = lines[l].source
          => OfLine(k) # OfLine(l)

\* Every step of a scrape keeps the SMART samples different.
LEMMA StepUnique == IInv /\ SourceInv /\ UniqueInv /\ [Next]_vars => UniqueInv'
<1> SUFFICES ASSUME IInv, SourceInv, UniqueInv, [Next]_vars PROVE UniqueInv'  OBVIOUS
<1>0. sensors' = sensors /\ Len(sensors) \in Nat /\ at \in Nat
  <2>1. sensors' = sensors  BY InputsStay DEF inputVars
  <2>2. Len(sensors) \in Nat /\ at \in Nat
    BY SensorsAssumption, ReportsAssumption DEF SourceInv, InputsOK, Sources
  <2> QED  BY <2>1, <2>2
<1>1. CASE ProcessSensor \/ EmitSmartMetrics
  <2>1. /\ at' = at + 1 /\ at + 1 \in 1..Sources /\ queue' = Given(at + 1)
        /\ lines' = lines
    BY <1>1, Visits
  <2>2. at + 1 > Len(sensors) => IsInjective(queue')
    BY <2>1, GivenFacts DEF SourceInv, InputsOK
  <2>3. \A k \in Samples : lines[k].source # at + 1
    BY <1>0 DEF SourceInv, LinesInv, Samples
  <2>4. SamplesOf(at)' = {}  BY <2>1, <2>3 DEF SamplesOf, Samples
  <2>5. \A k, l \in Samples' :
           /\ k # l
           /\ lines'[k].source > Len(sensors')
           /\ lines'[k].source = lines'[l].source
           => OfLine(k)' # OfLine(l)'
    BY <1>0, <2>1 DEF UniqueInv, Samples, OfLine
  <2> QED  BY <1>0, <2>1, <2>2, <2>4, <2>5 DEF UniqueInv
<1>2. CASE ProcessSensorThrows
  BY <1>2 DEF ProcessSensorThrows, UniqueInv, SamplesOf, Samples, IsInjective
<1>3. CASE queue # <<>> /\ Write(NewHeader)
  <2>1. queue # <<>> /\ queue' = Tail(queue) /\ at' = at
    BY <1>3 DEF Write
  <2>2. /\ 1 \in DOMAIN queue /\ Head(queue) = queue[1]
        /\ \A k \in DOMAIN queue' : k + 1 \in DOMAIN queue /\ queue'[k] = queue[k + 1]
        /\ Sample(Line.name, Line.labels) = Head(queue)
    BY <2>1, Takes
  <2>d. \A k \in DOMAIN queue' : k \in Nat /\ k # 0
    <3>1. queue' \in Seq(Range(queue'))  BY <2>1, Takes
    <3> QED  BY <3>1
  <2>3. PICK z \in DOMAIN lines' :
           /\ z \notin DOMAIN lines
           /\ lines'[z] = Line
           /\ \A k \in DOMAIN lines' : \/ k \in DOMAIN lines
                                       \/ k = z
                                       \/ lines'[k] = Header(Head(queue).name)
    BY <1>3, Written
  <2>4. \A k \in Samples' : /\ k = z \/ (k \in Samples /\ lines'[k] = lines[k])
                            /\ OfLine(k)' = Sample(lines'[k].name, lines'[k].labels)
    BY <1>3, <2>3, Written DEF Samples, Header, OfLine
  <2>5. OfLine(z)' = queue[1] /\ lines'[z].source = at
    BY <2>2, <2>3 DEF OfLine, Line
  <2>6. \A k \in Samples : lines'[k] = lines[k] => OfLine(k)' = OfLine(k)
    BY DEF OfLine
  <2>7. ASSUME at > Len(sensors)
        PROVE  /\ \A j, k \in DOMAIN queue : queue[j] = queue[k] => j = k
               /\ \A j \in DOMAIN queue, k \in SamplesOf(at) : queue[j] # OfLine(k)
    BY <2>7 DEF UniqueInv, IsInjective
  <2>8. ASSUME at > Len(sensors)
        PROVE  /\ IsInjective(queue')
               /\ \A j \in DOMAIN queue', k \in SamplesOf(at)' : queue'[j] # OfLine(k)'
    <3>1. \A j, k \in DOMAIN queue' : queue'[j] = queue'[k] => j = k
      <4> TAKE j, k \in DOMAIN queue'
      <4>1. queue'[j] = queue'[k] => j + 1 = k + 1  BY <2>2, <2>7, <2>8
      <4> QED  BY <2>d, <4>1
    <3>2. ASSUME NEW j \in DOMAIN queue', NEW k \in SamplesOf(at)'
          PROVE  queue'[j] # OfLine(k)'
      <4>0. k \in Samples' /\ lines'[k].source = at  BY <2>1 DEF SamplesOf
      <4>1. j + 1 \in DOMAIN queue /\ queue'[j] = queue[j + 1] /\ j + 1 # 1
        BY <2>2, <2>d
      <4>2. CASE k = z  BY <2>2, <2>5, <2>7, <2>8, <4>1, <4>2
      <4>3. CASE k \in Samples /\ lines'[k] = lines[k]
        <5>1. k \in SamplesOf(at)  BY <4>0, <4>3 DEF SamplesOf
        <5> QED  BY <2>6, <2>7, <2>8, <4>1, <4>3, <5>1
      <4> QED  BY <2>4, <4>0, <4>2, <4>3
    <3> QED  BY <3>1, <3>2 DEF IsInjective
  <2>9. ASSUME NEW k \in Samples', NEW l \in Samples', k # l,
               lines'[k].source > Len(sensors), lines'[k].source = lines'[l].source
        PROVE  OfLine(k)' # OfLine(l)'
    <3>1. ASSUME NEW m \in Samples, lines'[m] = lines[m],
                 lines[m].source = at, at > Len(sensors)
          PROVE  OfLine(m)' # OfLine(z)'
      <4>1. m \in SamplesOf(at)  BY <3>1 DEF SamplesOf
      <4> QED  BY <2>2, <2>5, <2>6, <2>7, <3>1, <4>1
    <3>2. CASE k = z  BY <2>4, <2>5, <2>9, <3>1, <3>2
    <3>3. CASE l = z  BY <2>4, <2>5, <2>9, <3>1, <3>3
    <3>4. CASE k # z /\ l # z  BY <2>4, <2>6, <2>9, <3>4 DEF UniqueInv
    <3> QED  BY <3>2, <3>3, <3>4
  <2> QED  BY <1>0, <2>1, <2>8, <2>9 DEF UniqueInv
<1>4. CASE UNCHANGED vars
  BY <1>0, <1>4 DEF vars, UniqueInv, SamplesOf, Samples, OfLine
<1> QED  BY <1>1, <1>2, <1>3, <1>4 DEF Next, EmitSensorSample, EmitSmartLine

\* Two SMART lines are never of one series: lines of one report differ in the
\* field or the attribute, lines of two reports in the device, whatever the
\* reports of the scrape (EmitSmartMetrics).
THEOREM SmartSeriesAreUnique == Spec => []SmartSeriesUnique
<1>1. Init => UniqueInv
  <2> SUFFICES ASSUME Init PROVE UniqueInv  OBVIOUS
  <2>1. ~ (at > Len(sensors))  BY SensorsAssumption DEF Init
  <2> QED  BY <2>1 DEF Init, UniqueInv, Samples
<1>2. IInv /\ SourceInv /\ UniqueInv /\ [Next]_vars => UniqueInv'
  BY StepUnique
<1>3. SourceInv /\ UniqueInv => SmartSeriesUnique
  <2> SUFFICES ASSUME SourceInv, UniqueInv, NEW k \in Samples, NEW l \in Samples, k # l,
                      lines[k].source > Len(sensors), lines[l].source > Len(sensors),
                      lines[k].name = lines[l].name, lines[k].labels = lines[l].labels
               PROVE  FALSE
    BY DEF SmartSeriesUnique, Series
  <2> DEFINE m == lines[k].source
             n == lines[l].source
  <2>1. OfLine(k) = OfLine(l) /\ OfLine(k).labels = lines[k].labels
        /\ OfLine(l).labels = lines[l].labels
    BY DEF OfLine, Sample
  <2>2. m # n  BY <2>1 DEF UniqueInv
  <2>3. /\ m \in 1..Sources /\ n \in 1..Sources
        /\ OfLine(k) \in Range(Given(m)) /\ OfLine(l) \in Range(Given(n))
        /\ Len(sensors) \in Nat
    BY SensorsAssumption, ReportsAssumption DEF SourceInv, InputsOK, LinesInv, Samples, Sources
  <2>4. /\ m - Len(sensors) \in DOMAIN reports /\ n - Len(sensors) \in DOMAIN reports
        /\ lines[k].labels["device"] = reports[m - Len(sensors)].device
        /\ lines[l].labels["device"] = reports[n - Len(sensors)].device
    BY <2>1, <2>3, GivenFacts DEF SourceInv, InputsOK
  <2>5. m - Len(sensors) = n - Len(sensors)
    BY <2>4, ReportsAssumption DEF SourceInv, InputsOK
  <2> QED  BY <2>2, <2>3, <2>5
<1> QED  BY <1>1, <1>2, <1>3, SourcesKept, PTL DEF Spec
==============================================================================
