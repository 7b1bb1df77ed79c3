------------------------ MODULE PolicyPipeline_proofs ------------------------
(***************************************************************************)
(* Proofs about PolicyPipeline for any scenes, kinds, clock and duration.  *)
(* First what selectors, conditions and TTLs mean, for every spec and      *)
(* object, as pure facts; then that IInv is inductive; then the properties *)
(* that follow from it.                                                    *)
(***************************************************************************)
EXTENDS PolicyPipeline, TLAPS

(***************************************************************************)
(* What the readers of an object return                                    *)
(***************************************************************************)

\* Lookup finds a value, or nothing.
LEMMA LookupIs ==
    ASSUME NEW map, NEW key
    PROVE  /\ Lookup(map, key) = <<>> <=> key \notin DOMAIN map
           /\ \A v : Lookup(map, key) = <<v>> <=> key \in DOMAIN map /\ map[key] = v
           /\ Lookup(map, key) # <<>> => Lookup(map, key)[1] = map[key]
BY DEF Lookup

\* Text finds a string, or nothing.
LEMMA TextIs ==
    ASSUME NEW obj, NEW path
    PROVE  /\ Text(obj, path) = <<>> <=> ~HasString(obj, path)
           /\ \A v : Text(obj, path) = <<v>> <=>
                         HasString(obj, path) /\ NestedString(obj, path) = v
           /\ Text(obj, path) # <<>> => Text(obj, path)[1] = NestedString(obj, path)
<1>1. Text(obj, path) = IF HasString(obj, path) THEN <<NestedString(obj, path)>> ELSE <<>>
  BY DEF Text, HasString
<1> QED BY <1>1

\* A duration below the limit of time.Duration does not wrap.
LEMMA DurationExact ==
    ASSUME NEW n \in 1..MaxDuration - 1
    PROVE  Duration(n) = n
<1>1. MaxDuration \in Nat /\ n \in Nat /\ n + MaxDuration < 2 * MaxDuration
  BY DurationAssumption
<1>2. (n + MaxDuration) % (2 * MaxDuration) = n + MaxDuration
  BY <1>1
<1> QED BY <1>1, <1>2 DEF Duration

(***************************************************************************)
(* Selectors                                                               *)
(***************************************************************************)

\* A requirement that validation lets through asks what its operator says.
LEMMA RequirementMeans ==
    ASSUME NEW e, NEW labels, validateLabelExpression(e)
    PROVE  LET got  == Lookup(labels, e.key)
               hits == \E v \in e.values : got = <<v>>
           IN  /\ e.operator \in {"Exists", "DoesNotExist"} => e.values = {}
               /\ Requirement(e, labels)
               <=>
               /\ e.operator = "In" => hits
               /\ e.operator = "NotIn" => ~hits
               /\ e.operator = "Exists" => got # <<>> /\ e.values = {}
               /\ e.operator = "DoesNotExist" => got = <<>> /\ e.values = {}
<1> DEFINE got  == Lookup(labels, e.key)
           hits == \E v \in e.values : got = <<v>>
<1>1. got = <<>> <=> e.key \notin DOMAIN labels
  BY LookupIs
<1>2. hits <=> e.key \in DOMAIN labels /\ labels[e.key] \in e.values
  BY LookupIs
<1>3. e.operator \in {"In", "NotIn", "Exists", "DoesNotExist"}
  BY DEF validateLabelExpression
<1> HIDE DEF got, hits
<1>4. /\ e.operator = "In" => (Requirement(e, labels) <=> hits)
      /\ e.operator = "NotIn" => (Requirement(e, labels) <=> ~hits)
      /\ e.operator = "Exists" => (Requirement(e, labels) <=> got # <<>>)
      /\ e.operator = "DoesNotExist" => (Requirement(e, labels) <=> got = <<>>)
  BY <1>1, <1>2 DEF Requirement
<1>5. /\ e.operator \in {"Exists", "DoesNotExist"} => e.values = {}
      /\ Requirement(e, labels)
      <=>
      /\ e.operator = "In" => hits
      /\ e.operator = "NotIn" => ~hits
      /\ e.operator = "Exists" => got # <<>> /\ e.values = {}
      /\ e.operator = "DoesNotExist" => got = <<>> /\ e.values = {}
  BY <1>3, <1>4
<1> QED BY <1>5 DEF got, hits

\* A selector that validation lets through matches what its terms say.
LEMMA SelectorMeans ==
    ASSUME NEW sel, NEW labels, validateLabelSelector(<<sel>>)
    PROVE  SelectorMatches(sel, labels) <=>
               /\ \A k \in DOMAIN sel.matchLabels :
                      Lookup(labels, k) = <<sel.matchLabels[k]>>
               /\ \A e \in sel.matchExpressions :
                      LET got  == Lookup(labels, e.key)
                          hits == \E v \in e.values : got = <<v>>
                      IN  /\ e.operator = "In" => hits
                          /\ e.operator = "NotIn" => ~hits
                          /\ e.operator = "Exists" => got # <<>> /\ e.values = {}
                          /\ e.operator = "DoesNotExist" => got = <<>> /\ e.values = {}
<1> DEFINE means(e) ==
               LET got  == Lookup(labels, e.key)
                   hits == \E v \in e.values : got = <<v>>
               IN  /\ e.operator = "In" => hits
                   /\ e.operator = "NotIn" => ~hits
                   /\ e.operator = "Exists" => got # <<>> /\ e.values = {}
                   /\ e.operator = "DoesNotExist" => got = <<>> /\ e.values = {}
           bare(e) == e.operator \in {"Exists", "DoesNotExist"} => e.values = {}
<1>1. \A k : Lookup(labels, k) = <<sel.matchLabels[k]>> <=>
                 k \in DOMAIN labels /\ labels[k] = sel.matchLabels[k]
  BY LookupIs
<1>2. <<sel>> # <<>> /\ <<sel>>[1] = sel
  OBVIOUS
<1>3. \A e \in sel.matchExpressions : validateLabelExpression(e)
  BY <1>2 DEF validateLabelSelector, validateMatchExpressions
<1>4. \A e \in sel.matchExpressions : bare(e) /\ Requirement(e, labels) <=> means(e)
  BY <1>3, RequirementMeans
<1>5. SelectorMatches(sel, labels) <=>
          /\ \A e \in sel.matchExpressions : bare(e)
          /\ \A k \in DOMAIN sel.matchLabels :
                 k \in DOMAIN labels /\ labels[k] = sel.matchLabels[k]
          /\ \A e \in sel.matchExpressions : Requirement(e, labels)
  BY DEF SelectorMatches
<1> HIDE DEF means, bare
<1>6. SelectorMatches(sel, labels) <=>
          /\ \A k \in DOMAIN sel.matchLabels : Lookup(labels, k) = <<sel.matchLabels[k]>>
          /\ \A e \in sel.matchExpressions : means(e)
  BY <1>1, <1>4, <1>5
<1> QED BY <1>6 DEF means

\* matchesSelectorsShared on a valid target, with plain paths, is Selected.
LEMMA SelectionMeans ==
    ASSUME NEW spec, NEW obj, RuntimeValid(spec),
           EscapedPaths \cap DOMAIN spec.target.fieldSelector = {},
           Lower[obj.kind] = Lower[spec.target.kind]
    PROVE  matchesSelectors(obj, spec.target) <=> Selected(spec, obj)
<1> DEFINE target == spec.target
           sel    == target.labelSelector[1]
           ok     == /\ \A k \in DOMAIN sel.matchLabels :
                            Lookup(obj.labels, k) = <<sel.matchLabels[k]>>
                     /\ \A e \in sel.matchExpressions :
                            LET got  == Lookup(obj.labels, e.key)
                                hits == \E v \in e.values : got = <<v>>
                            IN  /\ e.operator = "In" => hits
                                /\ e.operator = "NotIn" => ~hits
                                /\ e.operator = "Exists" => got # <<>> /\ e.values = {}
                                /\ e.operator = "DoesNotExist" => got = <<>> /\ e.values = {}
<1>1. validateTargetResource(target)
  BY DEF RuntimeValid, ValidatePolicy
<1>2. target.namespace # ""
  BY <1>1 DEF validateTargetResource, validateNamespace
<1>3. target.labelSelector # <<>> => validateLabelSelector(<<sel>>)
  <2>1. <<sel>>[1] = sel
    OBVIOUS
  <2>2. validateLabelSelector(target.labelSelector)
    BY <1>1 DEF validateTargetResource
  <2> QED BY <2>1, <2>2 DEF validateLabelSelector
<1>4. target.labelSelector # <<>> => (SelectorMatches(sel, obj.labels) <=> ok)
  BY <1>3, SelectorMeans
<1>5. \A path \in DOMAIN target.fieldSelector : parseFieldPath(path) = path
  BY DEF parseFieldPath
<1>6. \A path \in DOMAIN target.fieldSelector :
          (/\ HasString(obj, parseFieldPath(path))
           /\ NestedString(obj, parseFieldPath(path)) = target.fieldSelector[path])
          <=> Text(obj, path) = <<target.fieldSelector[path]>>
  BY <1>5, TextIs
<1>7. Selected(spec, obj) <=>
          /\ target.namespace # obj.ns => target.namespace = "*"
          /\ target.labelSelector # <<>> => ok
          /\ \A path \in DOMAIN target.fieldSelector :
                 Text(obj, path) = <<target.fieldSelector[path]>>
  BY Zenon DEF Selected
<1>8. matchesSelectors(obj, target) <=>
          /\ target.namespace \in {"", "*", obj.ns}
          /\ target.labelSelector # <<>> => SelectorMatches(sel, obj.labels)
          /\ \A path \in DOMAIN target.fieldSelector :
                 /\ HasString(obj, parseFieldPath(path))
                 /\ NestedString(obj, parseFieldPath(path)) = target.fieldSelector[path]
  BY DEF matchesSelectors
<1> HIDE DEF ok, sel, target
<1>9. matchesSelectors(obj, target) <=> Selected(spec, obj)
  BY <1>2, <1>4, <1>6, <1>7, <1>8
<1> QED BY <1>9 DEF target

(***************************************************************************)
(* Conditions                                                              *)
(***************************************************************************)

\* A label condition asks what its operator says, unless it is "In" the
\* empty string.
LEMMA LabelConditionMeans ==
    ASSUME NEW l, NEW labels, l.operator = "In" => l.value # ""
    PROVE  LET got == Lookup(labels, l.key)
           IN  meetsLabelCondition(l, labels) <=>
                   \/ l.operator = "Exists" /\ got # <<>>
                   \/ l.operator \in {"Equals", "", "In"} /\ got = <<l.value>>
                   \/ l.operator = "NotIn" /\ got # <<l.value>>
<1> DEFINE got   == Lookup(labels, l.key)
           equal == l.key \in DOMAIN labels /\ labels[l.key] = l.value
<1>1. (got = <<>> <=> l.key \notin DOMAIN labels) /\ (got = <<l.value>> <=> equal)
  <2>1. \A key, v : Lookup(labels, key) = <<v>> <=> key \in DOMAIN labels /\ labels[key] = v
    BY LookupIs
  <2> QED BY <2>1, LookupIs
<1>2. /\ l.operator = "Exists" => (meetsLabelCondition(l, labels) <=> l.key \in DOMAIN labels)
      /\ l.operator \in {"Equals", ""} => (meetsLabelCondition(l, labels) <=> equal)
      /\ l.operator = "In" => (meetsLabelCondition(l, labels) <=> equal)
      /\ l.operator = "NotIn" => (meetsLabelCondition(l, labels) <=> ~equal)
      /\ l.operator \notin {"Exists", "Equals", "", "In", "NotIn"} =>
             ~meetsLabelCondition(l, labels)
  BY Zenon DEF meetsLabelCondition
<1> HIDE DEF got, equal
<1>3. meetsLabelCondition(l, labels) <=>
          \/ l.operator = "Exists" /\ got # <<>>
          \/ l.operator \in {"Equals", "", "In"} /\ got = <<l.value>>
          \/ l.operator = "NotIn" /\ got # <<l.value>>
  BY <1>1, <1>2
<1> QED BY <1>3 DEF got

\* A field condition on a plain path asks what its operator says, of a field
\* that is there.
LEMMA FieldConditionMeans ==
    ASSUME NEW f, NEW obj, f.fieldPath \notin EscapedPaths
    PROVE  LET path == parseFieldPath(f.fieldPath)
               got  == Text(obj, f.fieldPath)
           IN  HasString(obj, path) /\ matchesFieldOperator(NestedString(obj, path), f)
               <=>
               \/ f.operator = "Equals" /\ got = <<f.value>>
               \/ f.operator = "NotEquals" /\ got \notin {<<>>, <<f.value>>}
               \/ f.operator = "In" /\ \E v \in f.values : got = <<v>>
               \/ /\ f.operator = "NotIn" /\ got # <<>>
                  /\ \A v \in f.values : got # <<v>>
<1> DEFINE path  == f.fieldPath
           got   == Text(obj, path)
           value == NestedString(obj, path)
<1>1. parseFieldPath(path) = path
  BY DEF parseFieldPath
<1>2. /\ got = <<>> <=> ~HasString(obj, path)
      /\ \A v : got = <<v>> <=> HasString(obj, path) /\ value = v
  BY TextIs
<1> HIDE DEF value, got, path
<1>3. /\ f.operator = "Equals" => (matchesFieldOperator(value, f) <=> value = f.value)
      /\ f.operator = "NotEquals" => (matchesFieldOperator(value, f) <=> value # f.value)
      /\ f.operator = "In" => (matchesFieldOperator(value, f) <=> value \in f.values)
      /\ f.operator = "NotIn" => (matchesFieldOperator(value, f) <=> value \notin f.values)
      /\ f.operator \notin {"Equals", "NotEquals", "In", "NotIn"} =>
             ~matchesFieldOperator(value, f)
  BY Zenon DEF matchesFieldOperator
<1>4. HasString(obj, path) /\ matchesFieldOperator(value, f)
      <=>
      \/ f.operator = "Equals" /\ got = <<f.value>>
      \/ f.operator = "NotEquals" /\ got \notin {<<>>, <<f.value>>}
      \/ f.operator = "In" /\ \E v \in f.values : got = <<v>>
      \/ /\ f.operator = "NotIn" /\ got # <<>>
         /\ \A v \in f.values : got # <<v>>
  BY <1>2, <1>3
<1> QED BY <1>1, <1>4 DEF value, got, path

\* meetsConditionsShared on plain conditions is Wanted.
LEMMA ConditionsMean ==
    ASSUME NEW spec, NEW obj, Plain(spec)
    PROVE  (spec.conditions # <<>> => meetsConditions(obj, spec.conditions[1]))
               <=> Wanted(spec, obj)
<1> DEFINE c == spec.conditions[1]
           label(l) == LET got == Lookup(obj.labels, l.key)
                       IN  \/ l.operator = "Exists" /\ got # <<>>
                           \/ l.operator \in {"Equals", "", "In"} /\ got = <<l.value>>
                           \/ l.operator = "NotIn" /\ got # <<l.value>>
           field(f) == LET got == Text(obj, f.fieldPath)
                       IN  \/ f.operator = "Equals" /\ got = <<f.value>>
                           \/ f.operator = "NotEquals" /\ got \notin {<<>>, <<f.value>>}
                           \/ f.operator = "In" /\ \E v \in f.values : got = <<v>>
                           \/ /\ f.operator = "NotIn" /\ got # <<>>
                              /\ \A v \in f.values : got # <<v>>
<1>1. Wanted(spec, obj) <=>
          (spec.conditions # <<>> =>
              /\ c.phase = {} \/ \E p \in c.phase : p = obj.phase
              /\ \A l \in c.hasLabels : label(l)
              /\ \A a \in c.hasAnnotations : Lookup(obj.annotations, a.key) = <<a.value>>
              /\ \A f \in c.and : field(f))
  BY Zenon DEF Wanted
<1>2. CASE spec.conditions = <<>>
  BY <1>1, <1>2
<1>3. CASE spec.conditions # <<>>
  <2>1. /\ \A f \in c.and : f.fieldPath \notin EscapedPaths
        /\ \A l \in c.hasLabels : l.operator = "In" => l.value # ""
    BY <1>3, Zenon DEF Plain
  <2>2. \A l \in c.hasLabels : meetsLabelCondition(l, obj.labels) <=> label(l)
    BY <2>1, LabelConditionMeans
  <2>3. \A f \in c.and :
            LET path == parseFieldPath(f.fieldPath)
            IN  HasString(obj, path) /\ matchesFieldOperator(NestedString(obj, path), f)
                    <=> field(f)
    BY <2>1, FieldConditionMeans
  <2>4. meetsFieldConditions(obj, c.and) <=> \A f \in c.and : field(f)
    BY <2>3, Zenon DEF meetsFieldConditions
  <2>5. meetsAnnotationConditions(obj, c.hasAnnotations) <=>
            \A a \in c.hasAnnotations : Lookup(obj.annotations, a.key) = <<a.value>>
    <3>1. \A key, v : Lookup(obj.annotations, key) = <<v>> <=>
                          key \in DOMAIN obj.annotations /\ obj.annotations[key] = v
      BY LookupIs
    <3> QED BY <3>1, Zenon DEF meetsAnnotationConditions
  <2>6. meetsPhaseConditions(obj, c.phase) <=> c.phase = {} \/ \E p \in c.phase : p = obj.phase
    BY DEF meetsPhaseConditions
  <2>7. meetsConditions(obj, c) <=>
            /\ meetsPhaseConditions(obj, c.phase)
            /\ \A l \in c.hasLabels : meetsLabelCondition(l, obj.labels)
            /\ meetsAnnotationConditions(obj, c.hasAnnotations)
            /\ meetsFieldConditions(obj, c.and)
    BY DEF meetsConditions
  <2> HIDE DEF c, label, field
  <2>8. meetsConditions(obj, c) <=> Wanted(spec, obj)
    BY <1>1, <1>3, <2>2, <2>4, <2>5, <2>6, <2>7
  <2> QED BY <1>3, <2>8 DEF c
<1> QED BY <1>2, <1>3

(***************************************************************************)
(* Expiry                                                                  *)
(***************************************************************************)

\* An expiry at a known time.
LEMMA AtMeans ==
    ASSUME NEW t, NEW clock
    PROVE  LET e == At(t)
           IN  (e.err = "ErrRelativeTTLExpired" \/ (e.err = "" /\ clock > e.at)) <=> clock > t
BY DEF At

\* The TTL read from a field: an integer, a mapped string or the default.
LEMMA FieldExpiryMeans ==
    ASSUME NEW ttl, NEW obj,
           \A n \in FieldLifetimes(ttl, obj) : n \in 1..MaxDuration - 1
    PROVE  LET e == fieldTTLExpiration(obj, ttl)
           IN  (e.err = "ErrRelativeTTLExpired" \/ (e.err = "" /\ now > e.at)) <=>
                   \E n \in FieldLifetimes(ttl, obj) : now > obj.created + n
<1> DEFINE value  == Lookup(obj.fields, ttl.fieldPath)
           number == value # <<>> /\ value[1][1] = "int"
           text   == Text(obj, ttl.fieldPath)
           mapped == text # <<>> /\ text[1] \in DOMAIN ttl.mappings
           N      == IF number THEN {value[1][2]} ELSE {}
           M      == IF mapped THEN {ttl.mappings[text[1]]} ELSE {}
           D      == {d[1] : d \in {x \in {ttl.default} :
                        /\ x # <<>> /\ ~number /\ ~mapped
                        /\ text # <<>> => DOMAIN ttl.mappings # {}}}
           seconds ==
               IF HasInt64(obj, ttl.fieldPath) THEN <<obj.fields[ttl.fieldPath][2]>>
               ELSE IF ~HasString(obj, ttl.fieldPath) THEN ttl.default
               ELSE IF DOMAIN ttl.mappings = {} THEN <<>>
               ELSE mappedTTLForValue(ttl, NestedString(obj, ttl.fieldPath))
           L == FieldLifetimes(ttl, obj)
           e == fieldTTLExpiration(obj, ttl)
<1>1. L = (N \cup M) \cup D
  BY DEF FieldLifetimes
<1>2. /\ value = <<>> <=> ttl.fieldPath \notin DOMAIN obj.fields
      /\ value # <<>> => value[1] = obj.fields[ttl.fieldPath]
  BY LookupIs
<1>3. /\ text = <<>> <=> ~HasString(obj, ttl.fieldPath)
      /\ text # <<>> => text[1] = NestedString(obj, ttl.fieldPath)
  BY TextIs
<1>4. number <=> HasInt64(obj, ttl.fieldPath)
  BY <1>2 DEF HasInt64
<1>5. number => text = <<>>
  BY <1>3, <1>4 DEF HasInt64, HasString, IsString
<1>6. D = IF /\ ttl.default # <<>> /\ ~number /\ ~mapped
             /\ text # <<>> => DOMAIN ttl.mappings # {}
          THEN {ttl.default[1]} ELSE {}
  OBVIOUS
<1>7. seconds = IF number THEN <<value[1][2]>>
                ELSE IF text = <<>> THEN ttl.default
                ELSE IF DOMAIN ttl.mappings = {} THEN <<>>
                ELSE IF mapped THEN <<ttl.mappings[text[1]]>> ELSE ttl.default
  BY <1>2, <1>3, <1>4 DEF mappedTTLForValue
<1>8. L = IF seconds = <<>> THEN {} ELSE {seconds[1]}
  <2> HIDE DEF L, seconds, value, text
  <2>1. CASE number
    BY <1>1, <1>5, <1>6, <1>7, <2>1
  <2>2. CASE ~number /\ text = <<>>
    BY <1>1, <1>6, <1>7, <2>2
  <2>3. CASE ~number /\ text # <<>> /\ DOMAIN ttl.mappings = {}
    BY <1>1, <1>6, <1>7, <2>3
  <2>4. CASE ~number /\ text # <<>> /\ DOMAIN ttl.mappings # {}
    BY <1>1, <1>6, <1>7, <2>4
  <2> QED BY <2>1, <2>2, <2>3, <2>4
<1>9. e = IF seconds = <<>> THEN Failed("unusable")
          ELSE At(obj.created + Duration(seconds[1]))
  BY DEF fieldTTLExpiration
<1>10. CASE seconds = <<>>
  <2>1. e.err = "unusable" /\ L = {}
    BY <1>8, <1>9, <1>10 DEF Failed
  <2> QED BY <2>1
<1>11. CASE seconds # <<>>
  <2>1. L = {seconds[1]} /\ e = At(obj.created + Duration(seconds[1]))
    BY <1>8, <1>9, <1>11
  <2>2. Duration(seconds[1]) = seconds[1]
    BY <2>1, DurationExact
  <2>3. e = At(obj.created + seconds[1])
    BY <2>1, <2>2
  <2> HIDE DEF L, e, seconds
  <2>4. (e.err = "ErrRelativeTTLExpired" \/ (e.err = "" /\ now > e.at)) <=>
            now > obj.created + seconds[1]
    BY <2>3, AtMeans
  <2>5. (e.err = "ErrRelativeTTLExpired" \/ (e.err = "" /\ now > e.at)) <=>
            \E n \in L : now > obj.created + n
    BY <2>1, <2>4
  <2> QED BY <2>5 DEF L, e
<1> QED BY <1>10, <1>11

\* CalculateExpirationTime on a valid TTL with sane seconds: an object is to
\* be deleted once one of the lifetimes the spec gives it is over.
LEMMA ExpiryMeans ==
    ASSUME NEW spec, NEW obj, validateTTL(spec.ttl), Sane(spec.ttl, obj)
    PROVE  shouldDelete(obj, spec.ttl, now) <=> Due(spec, obj)
<1> DEFINE ttl == spec.ttl
           e == CalculateExpirationTime(obj, ttl, now)
           past(from, secs) == now > from + secs
           over == e.err = "ErrRelativeTTLExpired" \/ (e.err = "" /\ now > e.at)
<1>1. shouldDelete(obj, ttl, now) <=> over
  BY DEF shouldDelete
<1>2. Due(spec, obj) <=> \E life \in Lifetimes(ttl, obj) : past(life.from, life.secs)
  BY DEF Due
<1>3. \A life \in Lifetimes(ttl, obj) : life.secs \in 1..MaxDuration - 1
  BY DEF Sane
<1> HIDE DEF ttl
<1>4. CASE ttl.secondsAfterCreation # <<>>
  <2> DEFINE n == ttl.secondsAfterCreation[1]
             life == [from |-> obj.created, secs |-> n]
  <2>1. Lifetimes(ttl, obj) = {life}
    BY <1>4 DEF Lifetimes
  <2>2. Duration(n) = n
    BY <1>3, <2>1, DurationExact
  <2>3. e = At(obj.created + n)
    BY <1>4, <2>2 DEF CalculateExpirationTime, fixedTTLExpiration
  <2>4. over <=> past(obj.created, n)
    BY <2>3, AtMeans
  <2>5. life.from = obj.created /\ life.secs = n
    OBVIOUS
  <2> HIDE DEF over, past, life
  <2>6. (\E x \in {life} : past(x.from, x.secs)) <=> past(obj.created, n)
    BY <2>5
  <2> QED BY <1>1, <1>2, <2>1, <2>4, <2>6 DEF ttl
<1>5. CASE ttl.secondsAfterCreation = <<>> /\ ttl.fieldPath # ""
  <2>1. Lifetimes(ttl, obj) =
            {[from |-> obj.created, secs |-> n] : n \in FieldLifetimes(ttl, obj)}
    BY <1>5 DEF Lifetimes
  <2>2. \A n \in FieldLifetimes(ttl, obj) : n \in 1..MaxDuration - 1
    <3> TAKE n \in FieldLifetimes(ttl, obj)
    <3>1. [from |-> obj.created, secs |-> n] \in Lifetimes(ttl, obj)
      BY <2>1
    <3>2. [from |-> obj.created, secs |-> n].secs \in 1..MaxDuration - 1
      BY <3>1, <1>3
    <3> QED BY <3>2
  <2>3. e = fieldTTLExpiration(obj, ttl)
    BY <1>5 DEF CalculateExpirationTime
  <2>4. over <=> \E n \in FieldLifetimes(ttl, obj) : past(obj.created, n)
    BY <2>2, <2>3, FieldExpiryMeans
  <2> HIDE DEF e, over, past
  <2>5. (\E n \in FieldLifetimes(ttl, obj) : past(obj.created, n)) <=>
            \E life \in Lifetimes(ttl, obj) : past(life.from, life.secs)
    <3> DEFINE of(n) == [from |-> obj.created, secs |-> n]
    <3>1. \A n : past(of(n).from, of(n).secs) <=> past(obj.created, n)
      <4> TAKE n
      <4>1. of(n).from = obj.created /\ of(n).secs = n
        OBVIOUS
      <4> HIDE DEF of
      <4> QED BY <4>1
    <3>2. Lifetimes(ttl, obj) = {of(n) : n \in FieldLifetimes(ttl, obj)}
      BY <2>1
    <3> HIDE DEF of
    <3> QED BY <3>1, <3>2
  <2> QED BY <1>1, <1>2, <2>4, <2>5 DEF ttl
<1>6. CASE ttl.secondsAfterCreation = <<>> /\ ttl.fieldPath = ""
  <2> DEFINE value == Lookup(obj.fields, ttl.relativeTo)
             n == ttl.secondsAfter[1]
             timed == value # <<>> /\ value[1][1] = "time"
             expiration == obj.fields[ttl.relativeTo][2] + Duration(n)
  <2>1. ttl.relativeTo # "" /\ ttl.secondsAfter # <<>>
    BY <1>6 DEF validateTTL, Positive, ttl
  <2>2. Lifetimes(ttl, obj) =
            {[from |-> t[1][2], secs |-> n] : t \in {x \in {value} :
                ttl.secondsAfter # <<>> /\ x # <<>> /\ x[1][1] = "time"}}
    BY <1>6 DEF Lifetimes
  <2>3. /\ value = <<>> <=> ttl.relativeTo \notin DOMAIN obj.fields
        /\ value # <<>> => value[1] = obj.fields[ttl.relativeTo]
    BY LookupIs
  <2>4. e = relativeTTLExpiration(obj, ttl, now)
    BY <1>6, <2>1 DEF CalculateExpirationTime
  <2>5. timed <=> /\ HasString(obj, ttl.relativeTo)
                  /\ obj.fields[ttl.relativeTo][1] = "time"
    BY <2>3 DEF HasString, IsString
  <2>6. CASE ~timed
    <3>1. Lifetimes(ttl, obj) = {}
      BY <2>2, <2>6
    <3>2. e.err = "unusable"
      BY <2>4, <2>5, <2>6 DEF relativeTTLExpiration, Failed
    <3> QED BY <1>1, <1>2, <3>1, <3>2 DEF ttl
  <2>7. CASE timed
    <3> DEFINE life == [from |-> value[1][2], secs |-> n]
    <3>1. Lifetimes(ttl, obj) = {life}
      BY <2>1, <2>2, <2>7
    <3>2. Duration(n) = n
      BY <1>3, <3>1, DurationExact
    <3>3. (now > expiration) = past(life.from, life.secs)
      BY <2>3, <2>7, <3>2
    <3> HIDE DEF expiration
    <3>4. e = IF now > expiration THEN Failed("ErrRelativeTTLExpired") ELSE At(expiration)
      BY <2>4, <2>5, <2>7 DEF relativeTTLExpiration, expiration
    <3>5. over <=> now > expiration
      <4>1. CASE now > expiration
        BY <3>4, <4>1 DEF Failed
      <4>2. CASE ~(now > expiration)
        <5>1. e = At(expiration)
          BY <3>4, <4>2
        <5> QED BY <5>1, AtMeans
      <4> QED BY <4>1, <4>2
    <3> HIDE DEF over, past, life
    <3> QED BY <1>1, <1>2, <3>1, <3>3, <3>5 DEF ttl
  <2> QED BY <2>6, <2>7
<1> QED BY <1>4, <1>5, <1>6

(***************************************************************************)
(* The plan                                                                *)
(***************************************************************************)

\* The direct path plans what the policy means; so does the evaluation
\* service, of what the gate allows, on a target that is served.
LEMMA PlanMeans ==
    ASSUME NEW spec, NEW obj, NEW direct \in BOOLEAN,
           object # <<>>, object[1] = obj, IsObject(obj), RuntimeValid(spec), Plain(spec), Sane(spec.ttl, obj),
           \E k \in Folds(spec.target.kind) : GroupOf[k] = spec.target.apiVersion
    PROVE  LET meant == Selected(spec, obj) /\ Wanted(spec, obj) /\ Due(spec, obj)
               legal == Allowed(safetyGate, obj, spec.behavior)
           IN  Planned(spec, direct) <=> meant /\ (direct \/ legal)
<1> DEFINE target == spec.target
           meant == Selected(spec, obj) /\ Wanted(spec, obj) /\ Due(spec, obj)
           legal == Allowed(safetyGate, obj, spec.behavior)
           wanted == spec.conditions # <<>> => meetsConditions(obj, spec.conditions[1])
<1>1. object # <<>> /\ object[1] = obj
  OBVIOUS
<1>2. ParseGVR(target.apiVersion, target.kind)
  <2>1. PICK k \in Folds(target.kind) : GroupOf[k] = target.apiVersion
    OBVIOUS
  <2>2. k \in DOMAIN Plural
    BY DEF Folds
  <2>3. ParseGVR(target.apiVersion, k)
    BY <2>1, <2>2, NamesAssumption
  <2>4. target.kind # ""
    BY DEF RuntimeValid, ValidatePolicy, validateTargetResource, validateKind
  <2> QED BY <2>3, <2>4 DEF ParseGVR
<1>3. validateTTL(spec.ttl) /\ target.namespace # ""
  BY DEF RuntimeValid, ValidatePolicy, validateTargetResource, validateNamespace
<1>4. shouldDelete(obj, spec.ttl, now) <=> Due(spec, obj)
  BY <1>3, ExpiryMeans
<1>5. wanted <=> Wanted(spec, obj)
  BY ConditionsMean
<1>6. Holds(target, obj) /\ matchesSelectors(obj, target) <=> Selected(spec, obj)
  <2>1. Selected(spec, obj) => Lower[obj.kind] = Lower[target.kind]
    BY Zenon DEF Selected
  <2>2. Holds(target, obj) => Lower[obj.kind] = Lower[target.kind]
    BY DEF Holds, Folds
  <2>3. Lower[obj.kind] = Lower[target.kind] =>
            (matchesSelectors(obj, target) <=> Selected(spec, obj))
    BY SelectionMeans DEF Plain
  <2>4. /\ Lower[obj.kind] = Lower[target.kind]
        /\ matchesSelectors(obj, target)
        => Holds(target, obj)
    BY <1>3 DEF Holds, Folds, IsObject, matchesSelectors
  <2> QED BY <2>1, <2>2, <2>3, <2>4
<1>7. matchesSelectors(obj, target) => ListResources(obj, target.namespace)
  BY DEF matchesSelectors, ListResources
<1>8. evaluatePolicyResourcesShared(spec, obj) <=>
          matchesSelectors(obj, target) /\ wanted /\ shouldDelete(obj, spec.ttl, now)
  BY DEF evaluatePolicyResourcesShared, reconcilerShouldDelete
<1>9. evaluateResources(spec, obj) <=>
          /\ ListResources(obj, target.namespace)
          /\ matchesSelectors(obj, target) /\ legal
          /\ wanted /\ shouldDelete(obj, spec.ttl, now)
  BY DEF evaluateResources
<1>10. Planned(spec, direct) <=>
          /\ Holds(target, obj)
          /\ IF direct THEN evaluatePolicyResourcesShared(spec, obj)
             ELSE evaluateResources(spec, obj)
  BY <1>1, <1>2 DEF Planned
<1> HIDE DEF wanted, legal, target
<1>11. Planned(spec, direct) <=> meant /\ (direct \/ legal)
  BY <1>4, <1>5, <1>6, <1>7, <1>8, <1>9, <1>10
<1> QED BY <1>11 DEF legal

(***************************************************************************)
(* Names                                                                   *)
(***************************************************************************)

\* Kinds that differ in case only have the same guess.
LEMMA GuessIgnoresCase ==
    ASSUME NEW a \in Kinds, NEW b \in Kinds, Lower[a] = Lower[b]
    PROVE  PluralizeKind(a) = PluralizeKind(b)
<1>1. Ending[a] = Ending[b]
  BY NamesAssumption
<1> QED BY <1>1, Zenon DEF PluralizeKind

\* A name in the cache is the right one.
LEMMA CachedIsServed ==
    ASSUME CacheIsDiscovered, NEW kind \in Kinds, gvrCache[kind] # <<>>
    PROVE  kind \in DOMAIN Plural /\ ResolveGVR(kind) = Plural[kind]
BY DEF CacheIsDiscovered, ResolveGVR

\* An object that an informer holds is deleted under the name it is served
\* under, whether the RESTMapper answers or not.
LEMMA HeldResolves ==
    ASSUME TypeOK, CacheIsDiscovered, InformersAreServed,
           NEW target, TargetKey(target) \in informers, NEW kind \in Folds(target.kind)
    PROVE  ResolveGVR(kind) = Plural[kind]
<1> DEFINE t == target.kind
<1>1. /\ TargetKey(target).kind = t
      /\ t \in Kinds /\ kind \in DOMAIN Plural /\ kind \in Kinds /\ Lower[kind] = Lower[t]
  BY NamesAssumption DEF TypeOK, TargetKey, Folds
<1>2. \/ gvrCache[t] # <<>>
      \/ \E k \in Folds(t) : PluralizeKind(t) = Plural[k]
  BY <1>1 DEF InformersAreServed
<1>3. CASE gvrCache[t] # <<>>
  <2>1. t \in DOMAIN Plural /\ ResolveGVR(t) = Plural[t]
    BY <1>1, <1>3, CachedIsServed
  <2>2. kind = t
    BY <1>1, <2>1, NamesAssumption
  <2> QED BY <2>1, <2>2
<1>4. CASE \E k \in Folds(t) : PluralizeKind(t) = Plural[k]
  <2>1. PICK k \in Folds(t) : PluralizeKind(t) = Plural[k]
    BY <1>4
  <2>2. k \in DOMAIN Plural /\ Lower[k] = Lower[t]
    BY DEF Folds
  <2>3. k = kind
    BY <1>1, <2>2, NamesAssumption
  <2>4. PluralizeKind(kind) = Plural[kind]
    BY <1>1, <2>1, <2>3, GuessIgnoresCase
  <2>5. gvrCache[kind] # <<>> => ResolveGVR(kind) = Plural[kind]
    BY <1>1, CachedIsServed
  <2> QED BY <2>4, <2>5 DEF ResolveGVR
<1> QED BY <1>2, <1>3, <1>4

\* A cached name is one name.
LEMMA OneName ==
    ASSUME NEW cache, NEW v, cache # <<>> => cache = <<v>>
    PROVE  Len(cache) <= 1
<1>1. CASE cache = <<>>
  <2>1. Len(cache) = 0
    BY <1>1
  <2> QED BY <2>1
<1>2. CASE cache = <<v>>
  <2>1. Len(cache) = 1
    BY <1>2
  <2> QED BY <2>1
<1> QED BY <1>1, <1>2

\* Nothing is lost from the cache, and nothing but discovery adds to it.
LEMMA RememberedOK ==
    ASSUME CacheIsDiscovered, InformersAreServed, NEW kind \in Kinds,
           gvrCache' \in {gvrCache, Remembered(kind)}
    PROVE  /\ CacheIsDiscovered'
           /\ \A k \in Kinds : gvrCache[k] # <<>> => gvrCache'[k] # <<>>
           /\ gvrCache' = Remembered(kind) /\ Mapped(kind) => gvrCache'[kind] # <<>>
BY DEF CacheIsDiscovered, Remembered, Mapped

\* An informer that is made, or one that runs, keeps its name.
LEMMA ServedOK ==
    ASSUME TypeOK, CacheIsDiscovered, InformersAreServed, NEW spec, IsSpec(spec),
           Observable(spec), informers' = informers \cup {TargetKey(spec.target)},
           gvrCache' = IF Running(spec) THEN gvrCache ELSE Remembered(spec.target.kind)
    PROVE  CacheIsDiscovered' /\ InformersAreServed'
<1> DEFINE kind == spec.target.kind
           new == TargetKey(spec.target)
<1>1. kind \in Kinds /\ new.kind = kind /\ new.apiVersion = spec.target.apiVersion
  BY DEF IsSpec, TargetKey
<1>2. /\ CacheIsDiscovered'
      /\ \A k \in Kinds : gvrCache[k] # <<>> => gvrCache'[k] # <<>>
      /\ gvrCache' = Remembered(kind) /\ Mapped(kind) => gvrCache'[kind] # <<>>
  BY <1>1, RememberedOK
<1>3. ASSUME NEW key \in informers
      PROVE  /\ \E k \in Folds(key.kind) : GroupOf[k] = key.apiVersion
             /\ \/ gvrCache'[key.kind] # <<>>
                \/ \E k \in Folds(key.kind) : PluralizeKind(key.kind) = Plural[k]
  BY <1>2 DEF InformersAreServed, TypeOK
<1>4. CASE Running(spec)
  <2>1. informers' = informers
    BY <1>4 DEF Running
  <2> QED BY <1>2, <1>3, <2>1 DEF InformersAreServed
<1>5. CASE ~Running(spec)
  <2>1. /\ gvrCache' = Remembered(kind)
        /\ Capable(spec.target)
        /\ \E k \in Folds(kind) : ResolveGVR(kind) = Plural[k]
    BY <1>5 DEF Observable
  <2>2. \E k \in Folds(kind) : GroupOf[k] = spec.target.apiVersion
    BY <2>1 DEF Capable
  <2>3. \/ gvrCache'[kind] # <<>>
        \/ \E k \in Folds(kind) : PluralizeKind(kind) = Plural[k]
    BY <1>1, <1>2, <2>1 DEF ResolveGVR
  <2>4. \A key \in informers' : key \in informers \/ key = new
    OBVIOUS
  <2> QED BY <1>1, <1>2, <1>3, <2>2, <2>3, <2>4 DEF InformersAreServed
<1> QED BY <1>4, <1>5

(***************************************************************************)
(* Admission and configuration                                             *)
(***************************************************************************)

\* An optional number that is set is a number.
LEMMA OptionalIs ==
    ASSUME NEW s \in Seq(Int), s # <<>>
    PROVE  s[1] \in Int
OBVIOUS

\* The defaults give a spec that grants nothing the user did not.
LEMMA DefaultsOK ==
    ASSUME NEW spec, IsSpec(spec), NEW op
    PROVE  LET stored == mutatePolicy(op, spec)
               asked  == spec.behavior
               got    == stored.behavior
           IN  /\ IsSpec(stored)
               /\ got.dryRun = asked.dryRun
               /\ got.allowWorkloadDeletion => asked.allowWorkloadDeletion
               /\ got.gracePeriodSeconds = asked.gracePeriodSeconds
               /\ asked.propagationPolicy \in {"", got.propagationPolicy}
               /\ asked.maxDeletionsPerSecond \in {0, got.maxDeletionsPerSecond}
               /\ asked.batchSize \in {0, got.batchSize}
<1> DEFINE stored == mutatePolicy(op, spec)
           asked  == spec.behavior
           base   == IF hasBehavior(asked) THEN asked ELSE NoBehavior
           got    == stored.behavior
<1>1. IsBehavior(asked)
  BY DEF IsSpec
<1>2. IsBehavior(NoBehavior)
  BY DEF NoBehavior, IsBehavior
<1>3. /\ IsBehavior(base)
      /\ base.dryRun = asked.dryRun
      /\ base.allowWorkloadDeletion => asked.allowWorkloadDeletion
      /\ base.gracePeriodSeconds = asked.gracePeriodSeconds
      /\ base.propagationPolicy = asked.propagationPolicy
      /\ base.maxDeletionsPerSecond = asked.maxDeletionsPerSecond
      /\ base.batchSize = asked.batchSize
  BY <1>1, <1>2 DEF hasBehavior, NoBehavior, IsBehavior
<1>4. CASE op # "CREATE"
  BY <1>1, <1>4 DEF mutatePolicy
<1>5. CASE op = "CREATE"
  <2>1. stored = [spec EXCEPT !.behavior = WithDefaults(base)]
    BY <1>5 DEF mutatePolicy
  <2> HIDE DEF base
  <2>2. IsBehavior(WithDefaults(base))
    BY <1>3 DEF WithDefaults, IsBehavior, DefaultMaxDeletionsPerSecond, DefaultBatchSize
  <2>3. /\ DOMAIN stored = DOMAIN spec
        /\ stored.target = spec.target
        /\ stored.evaluationInterval = spec.evaluationInterval
        /\ got = WithDefaults(base)
    BY <2>1 DEF IsSpec
  <2>4. IsSpec(stored)
    BY <2>2, <2>3 DEF IsSpec
  <2>5. /\ got.dryRun = base.dryRun
        /\ got.allowWorkloadDeletion = base.allowWorkloadDeletion
        /\ got.gracePeriodSeconds = base.gracePeriodSeconds
        /\ base.propagationPolicy \in {"", got.propagationPolicy}
        /\ base.maxDeletionsPerSecond \in {0, got.maxDeletionsPerSecond}
        /\ base.batchSize \in {0, got.batchSize}
    BY <1>3, <2>3 DEF WithDefaults, IsBehavior
  <2> QED BY <1>3, <2>4, <2>5
<1> QED BY <1>4, <1>5

\* What the environment and the flags make of a configuration: a flag wins,
\* and an environment cannot set the batch size to zero or less.
LEMMA ConfigOK ==
    ASSUME NEW start, IsStart(start)
    PROVE  LET cfg == Configuration(start)
           IN  /\ cfg.env = start.env /\ cfg.flags = start.flags
               /\ \A f \in Numbers : cfg[f] \in Int
               /\ cfg.protectedNamespaces =
                      {TrimSpace(ns) : ns \in start.env.protectedNamespaces} \ {""}
               /\ cfg.ownNamespace = start.env.podNamespace
               /\ cfg.deleteEnabled = (start.env.deleteEnabled \in {"", "true"})
               /\ IF start.flags.batchSize # <<>>
                  THEN cfg.batchSize = start.flags.batchSize[1]
                  ELSE cfg.batchSize > 0
               /\ IF start.flags.interval # <<>>
                  THEN cfg.interval = start.flags.interval[1]
                  ELSE cfg.interval > 0 \/ /\ start.env.interval.is = "int"
                                           /\ start.env.interval.n <= 0
<1> DEFINE env  == start.env
           fl   == start.flags
           load == LoadFromEnv(env)
           cfg  == applyFlagOverrides(load, fl)
           rate == EnvInt(env.maxDeletionsPerSecond, DefaultMaxDeletionsPerSecond)
           size == EnvInt(env.batchSize, DefaultBatchSize)
           many == EnvInt(env.maxConcurrentEvaluations, DefaultMaxConcurrentEvaluations)
<1>1. \A f \in Numbers :
          env[f].n \in Int /\ (fl[f] # <<>> => fl[f][1] \in Int)
  BY OptionalIs DEF IsStart
<1>2. {rate, size, many} \subseteq Nat \ {0}
  BY <1>1 DEF EnvInt, OptionalInt, Numbers, DefaultBatchSize,
              DefaultMaxDeletionsPerSecond, DefaultMaxConcurrentEvaluations
<1>3. /\ OptionalDuration(env.interval, DefaultCleanupInterval) \in Int
      /\ \/ OptionalDuration(env.interval, DefaultCleanupInterval) > 0
         \/ env.interval.is = "int" /\ env.interval.n <= 0
  BY <1>1 DEF OptionalDuration, DefaultCleanupInterval, Numbers
<1>4. /\ load.interval = OptionalDuration(env.interval, DefaultCleanupInterval)
      /\ load.maxDeletionsPerSecond = rate
      /\ load.batchSize = size
      /\ load.maxConcurrentEvaluations = many
      /\ load.deleteEnabled = (env.deleteEnabled \in {"", "true"})
      /\ load.protectedNamespaces =
             {TrimSpace(ns) : ns \in env.protectedNamespaces} \ {""}
      /\ load.ownNamespace = env.podNamespace
      /\ load.env = env
      /\ DOMAIN load = Numbers \cup {"deleteEnabled", "protectedNamespaces",
                                      "ownNamespace", "env", "flags"}
  BY DEF LoadFromEnv, Numbers
<1> HIDE DEF load, env, fl, rate, size, many
<1>5. /\ cfg.env = load.env /\ cfg.flags = fl /\ cfg.deleteEnabled = load.deleteEnabled
      /\ cfg.protectedNamespaces = load.protectedNamespaces
      /\ cfg.ownNamespace = load.ownNamespace
      /\ \A f \in Numbers : cfg[f] = IF fl[f] = <<>> THEN load[f] ELSE fl[f][1]
  BY <1>4 DEF applyFlagOverrides, Overridden, Numbers
<1> HIDE DEF cfg
<1>6. cfg.deleteEnabled = (env.deleteEnabled \in {"", "true"})
  BY <1>4, <1>5, Zenon
<1>7. IF fl.batchSize # <<>> THEN cfg.batchSize = fl.batchSize[1] ELSE cfg.batchSize > 0
  <2>1. CASE fl.batchSize # <<>>
    BY <1>5, <2>1 DEF Numbers
  <2>2. CASE fl.batchSize = <<>>
    <3>1. cfg.batchSize = size
      BY <1>4, <1>5, <2>2 DEF Numbers
    <3>2. cfg.batchSize \in Nat \ {0}
      BY <1>2, <3>1
    <3> QED BY <2>2, <3>2
  <2> QED BY <2>1, <2>2
<1>8. /\ \A f \in Numbers : cfg[f] \in Int
      /\ IF fl.interval # <<>> THEN cfg.interval = fl.interval[1]
         ELSE cfg.interval > 0 \/ (env.interval.is = "int" /\ env.interval.n <= 0)
  <2>1. /\ load.interval \in Int /\ load.maxDeletionsPerSecond \in Int
        /\ load.batchSize \in Int /\ load.maxConcurrentEvaluations \in Int
    <3>1. {rate, size, many} \subseteq Int
      BY <1>2
    <3>2. load.interval \in Int
      BY <1>3, <1>4
    <3> QED BY <1>4, <3>1, <3>2
  <2>2. \A f \in Numbers : cfg[f] \in Int
    BY <1>1, <1>5, <2>1 DEF Numbers
  <2>3. CASE fl.interval # <<>>
    BY <1>5, <2>2, <2>3 DEF Numbers
  <2>4. CASE fl.interval = <<>>
    BY <1>3, <1>4, <1>5, <2>2, <2>4 DEF Numbers
  <2> QED BY <2>2, <2>3, <2>4
<1>9. /\ cfg.env = env /\ cfg.flags = fl /\ cfg.ownNamespace = env.podNamespace
      /\ cfg.protectedNamespaces =
             {TrimSpace(ns) : ns \in env.protectedNamespaces} \ {""}
  BY <1>4, <1>5
<1>10. Configuration(start) = cfg
  BY DEF Configuration, cfg, load, env, fl
<1> QED BY <1>6, <1>7, <1>8, <1>9, <1>10 DEF env, fl

\* A rate is positive, and the policy's if it gives one.
LEMMA RateOK ==
    ASSUME NEW behavior, IsBehavior(behavior), NEW rate
    PROVE  /\ getOrCreateRateLimiter(behavior, rate) \in Nat
           /\ getOrCreateRateLimiter(behavior, rate) =
                  IF behavior.maxDeletionsPerSecond > 0
                  THEN behavior.maxDeletionsPerSecond
                  ELSE DefaultMaxDeletionsPerSecond
BY DEF IsBehavior, getOrCreateRateLimiter, SetRate, DefaultMaxDeletionsPerSecond

(***************************************************************************)
(* The invariant, action by action                                         *)
(***************************************************************************)

\* The invariant holds at the start.
LEMMA InitOK == Init => IInv
<1> SUFFICES ASSUME Init PROVE IInv
  OBVIOUS
<1>1. TypeOK
  <2>1. PICK o \in Scenes[scene].objects : object = <<o>>
    BY DEF Init
  <2>2. mapper \in BOOLEAN
    BY ScenesAssumption DEF Init
  <2> QED BY <2>1, <2>2, ClockAssumption DEF Init, TypeOK, Verdicts, Outcomes
<1>2. CacheIsDiscovered /\ InformersAreServed
  BY DEF Init, CacheIsDiscovered, InformersAreServed
<1>3. VerdictStands /\ PacedByPolicy /\ GoneMeansGone
  BY DEF Init, VerdictStands, PacedByPolicy, GoneMeansGone
<1> QED BY <1>1, <1>2, <1>3 DEF Init, IInv, StoredIsSpec, DefaultsNeverGrant, ConfigIsMade

\* Once anything changes, the verdict is forgotten.
LEMMA ForgetOK ==
    ASSUME Forget
    PROVE  VerdictStands' /\ PacedByPolicy' /\ GoneMeansGone'
BY DEF Forget, VerdictStands, PacedByPolicy, GoneMeansGone

\* What does not touch the memory of the process keeps it right.
LEMMA MemoryOK ==
    ASSUME IInv, UNCHANGED memory
    PROVE  CacheIsDiscovered' /\ InformersAreServed'
BY DEF IInv, memory, CacheIsDiscovered, InformersAreServed

\* What does not touch the policy keeps what is known of it.
LEMMA PolicyOK ==
    ASSUME IInv, UNCHANGED policy
    PROVE  StoredIsSpec' /\ DefaultsNeverGrant'
BY DEF IInv, StoredIsSpec, DefaultsNeverGrant

\* The gate and the validation change with the configuration alone.
LEMMA GateKept ==
    ASSUME UNCHANGED config
    PROVE  safetyGate' = safetyGate /\ \A spec : RuntimeValid(spec)' = RuntimeValid(spec)
BY DEF safetyGate, RuntimeValid

\* What does not touch the configuration keeps it made.
LEMMA ConfigKept ==
    ASSUME IInv, UNCHANGED <<scene, config>>
    PROVE  ConfigIsMade'
BY DEF IInv, ConfigIsMade

\* The process starts with a configuration, and with no verdict to stand by.
LEMMA StartOK ==
    ASSUME IInv, NEW start \in Scenes[scene].starts, Start(start)
    PROVE  IInv'
<1> DEFINE cfg == Configuration(start)
<1>1. IsStart(start)
  BY ScenesAssumption DEF IInv, TypeOK
<1>2. /\ \A f \in Numbers : cfg[f] \in Int
      /\ cfg.deleteEnabled = (start.env.deleteEnabled \in {"", "true"})
  BY <1>1, ConfigOK
<1>3. cfg.deleteEnabled \in BOOLEAN
  <2> DEFINE d == start.env.deleteEnabled \in {"", "true"}
  <2>1. d \in BOOLEAN
    OBVIOUS
  <2>2. cfg.deleteEnabled = d
    BY <1>2, Zenon
  <2> HIDE DEF d
  <2> QED BY <2>1, <2>2, Zenon
<1>4. config = <<>> /\ config' = <<cfg>>
  BY DEF Start
<1> HIDE DEF cfg
<1>5. verdict \notin {"invalid", "kept", "planned", "done"}
  BY <1>4 DEF IInv, VerdictStands
<1>6. TypeOK'
  <2>1. \A f \in Numbers : config'[1][f] \in Int
    BY <1>2, <1>4
  <2>2. config'[1].deleteEnabled \in BOOLEAN
    BY <1>3, <1>4
  <2> QED BY <1>5, <2>1, <2>2 DEF Start, IInv, TypeOK, memory
<1>7. ConfigIsMade'
  BY <1>4 DEF Start, ConfigIsMade, cfg
<1>8. VerdictStands' /\ PacedByPolicy' /\ GoneMeansGone'
  BY <1>5 DEF Start, IInv, VerdictStands, PacedByPolicy, GoneMeansGone
<1>9. CacheIsDiscovered' /\ InformersAreServed' /\ StoredIsSpec' /\ DefaultsNeverGrant'
  BY MemoryOK, PolicyOK DEF Start
<1> QED BY <1>6, <1>7, <1>8, <1>9 DEF IInv

\* A crash takes the memory of the process, informers and names together.
LEMMA CrashOK ==
    ASSUME IInv, Crash
    PROVE  IInv'
<1>1. TypeOK'
  BY DEF Crash, Forget, IInv, TypeOK, Verdicts, Outcomes
<1>2. CacheIsDiscovered' /\ InformersAreServed'
  BY DEF Crash, CacheIsDiscovered, InformersAreServed
<1>3. StoredIsSpec' /\ DefaultsNeverGrant' /\ ConfigIsMade'
  BY PolicyOK DEF Crash, ConfigIsMade
<1> QED BY <1>1, <1>2, <1>3, ForgetOK DEF Crash, IInv

\* A spec is stored that says no more than was asked for.
LEMMA StoreOK ==
    ASSUME IInv, NEW spec \in Scenes[scene].specs, NEW got, IsSpec(got),
           NEW reviewed,
           reviewed # <<>> => /\ ValidatePolicy(got)
                              /\ EvaluatePolicyTarget(reviewed[1], got.target) = "",
           Write(Stored(spec, got, reviewed)),
           /\ got.behavior.dryRun = spec.behavior.dryRun
           /\ got.behavior.allowWorkloadDeletion => spec.behavior.allowWorkloadDeletion
           /\ got.behavior.gracePeriodSeconds = spec.behavior.gracePeriodSeconds
           /\ spec.behavior.propagationPolicy \in {"", got.behavior.propagationPolicy}
           /\ spec.behavior.maxDeletionsPerSecond \in {0, got.behavior.maxDeletionsPerSecond}
           /\ spec.behavior.batchSize \in {0, got.behavior.batchSize}
    PROVE  IInv'
<1>1. /\ policy' # <<>>
      /\ policy'[1].asked = spec /\ policy'[1].spec = got /\ policy'[1].reviewed = reviewed
  BY DEF Write, Stored
<1>2. StoredIsSpec' /\ DefaultsNeverGrant'
  BY <1>1 DEF StoredIsSpec, DefaultsNeverGrant
<1>3. TypeOK'
  BY <1>1 DEF Write, Forget, IInv, TypeOK, memory, Verdicts, Outcomes
<1>4. CacheIsDiscovered' /\ InformersAreServed' /\ ConfigIsMade'
  BY MemoryOK, ConfigKept DEF Write
<1> QED BY <1>2, <1>3, <1>4, ForgetOK DEF Write, IInv

\* A write by way of the webhooks, or past them.
LEMMA WriteOK ==
    ASSUME IInv, NEW spec \in Scenes[scene].specs, NEW gate,
           Admit(spec, gate) \/ Bypass(spec)
    PROVE  IInv'
<1>1. IsSpec(spec)
  BY ScenesAssumption DEF IInv, TypeOK
<1>2. CASE Admit(spec, gate)
  <2> DEFINE op == IF policy = <<>> THEN "CREATE" ELSE "UPDATE"
             got == mutatePolicy(op, spec)
  <2>1. validatePolicy(gate, op, got) /\ Write(Stored(spec, got, <<gate>>))
    BY <1>2 DEF Admit
  <2>2. ValidatePolicy(got) /\ EvaluatePolicyTarget(<<gate>>[1], got.target) = ""
    BY <2>1 DEF validatePolicy
  <2>3. /\ IsSpec(got)
        /\ got.behavior.dryRun = spec.behavior.dryRun
        /\ got.behavior.allowWorkloadDeletion => spec.behavior.allowWorkloadDeletion
        /\ got.behavior.gracePeriodSeconds = spec.behavior.gracePeriodSeconds
        /\ spec.behavior.propagationPolicy \in {"", got.behavior.propagationPolicy}
        /\ spec.behavior.maxDeletionsPerSecond \in {0, got.behavior.maxDeletionsPerSecond}
        /\ spec.behavior.batchSize \in {0, got.behavior.batchSize}
    BY <1>1, DefaultsOK
  <2> HIDE DEF got
  <2> QED BY <2>1, <2>2, <2>3, StoreOK
<1>3. CASE Bypass(spec)
  BY <1>1, <1>3, StoreOK DEF Bypass
<1> QED BY <1>2, <1>3

\* The policy goes, and its limiter with it.
LEMMA RemoveOK ==
    ASSUME IInv, Remove
    PROVE  IInv'
<1>1. TypeOK'
  BY DEF Remove, Forget, IInv, TypeOK, Verdicts, Outcomes
<1>2. CacheIsDiscovered' /\ InformersAreServed'
  BY DEF Remove, IInv, CacheIsDiscovered, InformersAreServed
<1>3. StoredIsSpec' /\ DefaultsNeverGrant' /\ ConfigIsMade'
  BY ConfigKept DEF Remove, StoredIsSpec, DefaultsNeverGrant
<1> QED BY <1>1, <1>2, <1>3, ForgetOK DEF Remove, IInv

\* The cluster and the clock.
LEMMA ClusterOK ==
    ASSUME IInv,
           MapperChanges \/ (\E obj \in Scenes[scene].objects : Edit(obj)) \/ Tick
    PROVE  IInv'
<1>1. StoredIsSpec' /\ DefaultsNeverGrant' /\ ConfigIsMade'
  BY PolicyOK, ConfigKept DEF MapperChanges, Edit, Tick
<1>2. CacheIsDiscovered' /\ InformersAreServed'
  BY MemoryOK DEF MapperChanges, Edit, Tick
<1>3. CASE MapperChanges
  <2>1. mapper' \in BOOLEAN
    BY <1>3, ScenesAssumption DEF MapperChanges, IInv, TypeOK
  <2>2. TypeOK'
    BY <1>3, <2>1 DEF MapperChanges, IInv, TypeOK, memory
  <2>3. \A spec, direct : Planned(spec, direct)' = Planned(spec, direct)
    BY <1>3, GateKept DEF MapperChanges, Planned, evaluatePolicyResourcesShared,
                          evaluateResources
  <2>4. VerdictStands'
    BY <1>3, <2>3, GateKept DEF MapperChanges, IInv, VerdictStands, memory
  <2>5. PacedByPolicy' /\ GoneMeansGone'
    BY <1>3 DEF MapperChanges, IInv, PacedByPolicy, GoneMeansGone, memory
  <2> QED BY <1>1, <1>2, <2>2, <2>4, <2>5 DEF IInv
<1>4. CASE \E obj \in Scenes[scene].objects : Edit(obj)
  <2>1. PICK obj \in Scenes[scene].objects : Edit(obj)
    BY <1>4
  <2>2. object' = <<obj>> /\ Forget
    BY <2>1 DEF Edit
  <2>3. TypeOK'
    BY <2>1, <2>2 DEF Edit, Forget, IInv, TypeOK, memory, Verdicts, Outcomes
  <2> QED BY <1>1, <1>2, <2>2, <2>3, ForgetOK DEF IInv
<1>5. CASE Tick
  <2>1. TypeOK'
    BY <1>5, ClockAssumption DEF Tick, Forget, IInv, TypeOK, memory, Verdicts, Outcomes
  <2> QED BY <1>1, <1>2, <1>5, <2>1, ForgetOK DEF Tick, IInv
<1> QED BY <1>3, <1>4, <1>5

\* A reconcile leaves a verdict on what is there.
LEMMA ReconcileOK ==
    ASSUME IInv, NEW direct \in BOOLEAN, Reconcile(direct)
    PROVE  IInv'
<1> DEFINE spec == policy[1].spec
<1>1. /\ config # <<>> /\ policy # <<>> /\ Between /\ outcome' = "none"
      /\ Reject(spec) \/ Refuse(spec) \/ Evaluate(spec, direct)
      /\ UNCHANGED <<scene, config, policy, object, now, mapper>>
  BY DEF Reconcile
<1>2. StoredIsSpec' /\ DefaultsNeverGrant' /\ ConfigIsMade' /\ GoneMeansGone'
  BY <1>1, PolicyOK, ConfigKept DEF GoneMeansGone
<1>3. IsSpec(spec) /\ spec.target.kind \in Kinds
  BY <1>1 DEF IInv, StoredIsSpec, IsSpec
<1> HIDE DEF spec
<1>4. CASE Reject(spec)
  <2>1. verdict' = "invalid" /\ UNCHANGED memory /\ ~RuntimeValid(spec)
    BY <1>4 DEF Reject
  <2>2. TypeOK'
    BY <1>1, <2>1 DEF IInv, TypeOK, memory, Verdicts, Outcomes
  <2>3. VerdictStands' /\ PacedByPolicy'
    BY <1>1, <2>1, GateKept DEF VerdictStands, PacedByPolicy, spec
  <2> QED BY <1>2, <2>1, <2>2, <2>3, MemoryOK DEF IInv
<1>5. CASE Refuse(spec)
  <2>1. /\ verdict' = "refused" /\ UNCHANGED <<informers, limiter>>
        /\ gvrCache' \in {gvrCache, Remembered(spec.target.kind)}
    BY <1>5 DEF Refuse
  <2>2. /\ CacheIsDiscovered'
        /\ \A k \in Kinds : gvrCache[k] # <<>> => gvrCache'[k] # <<>>
    BY <1>3, <2>1, RememberedOK DEF IInv
  <2>3. TypeOK'
    <3>1. \A k \in Kinds : Len(gvrCache'[k]) <= 1
      BY <2>2, OneName DEF CacheIsDiscovered
    <3> QED BY <1>1, <2>1, <3>1 DEF IInv, TypeOK, Verdicts, Outcomes
  <2>4. InformersAreServed'
    BY <2>1, <2>2 DEF IInv, TypeOK, InformersAreServed
  <2>5. VerdictStands' /\ PacedByPolicy'
    BY <2>1 DEF VerdictStands, PacedByPolicy
  <2> QED BY <1>2, <2>2, <2>3, <2>4, <2>5 DEF IInv
<1>6. CASE Evaluate(spec, direct)
  <2>1. /\ RuntimeValid(spec) /\ Observable(spec)
        /\ verdict' = IF Planned(spec, direct) THEN "planned" ELSE "kept"
        /\ informers' = informers \cup {TargetKey(spec.target)}
        /\ gvrCache' = IF Running(spec) THEN gvrCache ELSE Remembered(spec.target.kind)
        /\ limiter' = IF Planned(spec, direct)
                      THEN getOrCreateRateLimiter(spec.behavior, limiter) ELSE limiter
    BY <1>6 DEF Evaluate
  <2>2. CacheIsDiscovered' /\ InformersAreServed'
    BY <1>3, <2>1, ServedOK DEF IInv
  <2>3. \A s, d : Planned(s, d)' = Planned(s, d)
    BY <1>1, GateKept DEF Planned, evaluatePolicyResourcesShared, evaluateResources
  <2>4. Planned(spec, direct) => object # <<>>
    BY DEF Planned
  <2>5. IsBehavior(spec.behavior)
    BY <1>3 DEF IsSpec
  <2>6. PacedByPolicy'
    <3> DEFINE rate == spec.behavior.maxDeletionsPerSecond
    <3>1. rate \in Int
      BY <2>5 DEF IsBehavior
    <3>2. verdict' = "planned" =>
              limiter' = IF rate > 0 THEN rate ELSE DefaultMaxDeletionsPerSecond
      BY <2>1, <2>5, RateOK
    <3>3. policy'[1].spec.behavior.maxDeletionsPerSecond = rate
      BY <1>1 DEF spec
    <3> HIDE DEF rate
    <3> QED BY <3>1, <3>2, <3>3 DEF PacedByPolicy
  <2>7. TypeOK'
    <3>1. \A k \in Kinds : Len(gvrCache'[k]) <= 1
      BY <2>2, OneName DEF CacheIsDiscovered
    <3>2. \A key \in informers' : key.kind \in Kinds
      BY <1>3, <2>1 DEF IInv, TypeOK, TargetKey
    <3>3. limiter' \in Nat
      BY <2>1, <2>5, RateOK DEF IInv, TypeOK
    <3>4. verdict' \in Verdicts /\ outcome' \in Outcomes
      BY <1>1, <2>1 DEF Verdicts, Outcomes
    <3>5. verdict' = "planned" => config' # <<>> /\ policy' # <<>> /\ object' # <<>>
      BY <1>1, <2>1, <2>4
    <3> QED BY <1>1, <3>1, <3>2, <3>3, <3>4, <3>5 DEF IInv, TypeOK
  <2>8. VerdictStands'
    <3>1. TargetKey(spec.target) \in informers' /\ verdict' # "invalid"
      BY <2>1
    <3>2. Planned(spec, direct) <=> verdict' = "planned"
      BY <2>1
    <3> QED BY <1>1, <2>1, <2>3, <3>1, <3>2, GateKept DEF VerdictStands, spec
  <2> QED BY <1>2, <2>2, <2>6, <2>7, <2>8 DEF IInv
<1> QED BY <1>1, <1>4, <1>5, <1>6

\* A deletion looks for the object under the name it is served under: it
\* never takes it for gone.
LEMMA DeleteOK ==
    ASSUME IInv, Delete
    PROVE  IInv' /\ outcome' # "gone"
<1> DEFINE spec == policy[1].spec
           obj == object[1]
<1>1. /\ verdict = "planned" /\ verdict' = "done"
      /\ outcome' = Outcome(spec, obj)
      /\ object' = IF outcome' = "deleted" THEN <<>> ELSE object
      /\ gvrCache' \in {gvrCache, Remembered(obj.kind)}
      /\ UNCHANGED <<scene, config, policy, now, mapper, informers, limiter>>
  BY DEF Delete
<1>2. config # <<>> /\ policy # <<>> /\ object # <<>>
  BY <1>1 DEF IInv, TypeOK
<1>3. PICK direct \in BOOLEAN : Planned(spec, direct)
  BY <1>1 DEF IInv, VerdictStands
<1>4. obj.kind \in Folds(spec.target.kind) /\ TargetKey(spec.target) \in informers
  BY <1>1, <1>3 DEF Planned, Holds, IInv, VerdictStands
<1>5. ResolveGVR(obj.kind) = Plural[obj.kind]
  BY <1>4, HeldResolves DEF IInv
<1>6. outcome' \in {"dryrun", "refused", "deleted"}
  BY <1>1, <1>5 DEF Outcome
<1>7. obj.kind \in Kinds
  BY <1>4, NamesAssumption DEF Folds
<1> HIDE DEF spec, obj
<1>8. /\ CacheIsDiscovered'
      /\ \A k \in Kinds : gvrCache[k] # <<>> => gvrCache'[k] # <<>>
  BY <1>1, <1>7, RememberedOK DEF IInv
<1>9. TypeOK'
  <2>1. \A k \in Kinds : Len(gvrCache'[k]) <= 1
    BY <1>8, OneName DEF CacheIsDiscovered
  <2>2. outcome' \in Outcomes /\ verdict' \in Verdicts
    BY <1>1, <1>6 DEF Outcomes, Verdicts
  <2> QED BY <1>1, <2>1, <2>2 DEF IInv, TypeOK
<1>10. InformersAreServed'
  BY <1>1, <1>8 DEF IInv, TypeOK, InformersAreServed
<1>11. StoredIsSpec' /\ DefaultsNeverGrant' /\ ConfigIsMade'
  BY <1>1, PolicyOK, ConfigKept
<1>12. VerdictStands' /\ PacedByPolicy' /\ GoneMeansGone'
  BY <1>1, <1>2, <1>6 DEF VerdictStands, PacedByPolicy, GoneMeansGone
<1> QED BY <1>6, <1>8, <1>9, <1>10, <1>11, <1>12 DEF IInv

\* Every step keeps the invariant.
LEMMA NextOK == IInv /\ [Next]_vars => IInv'
<1> SUFFICES ASSUME IInv, [Next]_vars PROVE IInv'
  OBVIOUS
<1>1. CASE UNCHANGED vars
  <2>1. \A s, d : Planned(s, d)' = Planned(s, d)
    BY <1>1, GateKept DEF vars, Planned, evaluatePolicyResourcesShared,
                          evaluateResources
  <2>2. VerdictStands'
    BY <1>1, <2>1, GateKept DEF vars, IInv, VerdictStands
  <2>3. TypeOK' /\ ConfigIsMade' /\ PacedByPolicy' /\ GoneMeansGone'
    BY <1>1 DEF vars, IInv, TypeOK, ConfigIsMade, PacedByPolicy, GoneMeansGone
  <2>4. UNCHANGED memory /\ UNCHANGED policy
    BY <1>1 DEF vars, memory
  <2> QED BY <2>2, <2>3, <2>4, MemoryOK, PolicyOK DEF IInv
<1>2. CASE \E start \in Scenes[scene].starts : Start(start)
  BY <1>2, StartOK
<1>3. CASE Crash
  BY <1>3, CrashOK
<1>4. CASE \/ \E spec \in Scenes[scene].specs, gate \in TargetGates : Admit(spec, gate)
           \/ \E spec \in Scenes[scene].specs : Bypass(spec)
  BY <1>4, WriteOK
<1>5. CASE Remove
  BY <1>5, RemoveOK
<1>6. CASE \E direct \in BOOLEAN : Reconcile(direct)
  BY <1>6, ReconcileOK
<1>7. CASE Delete
  BY <1>7, DeleteOK
<1>8. CASE MapperChanges \/ (\E obj \in Scenes[scene].objects : Edit(obj)) \/ Tick
  BY <1>8, ClusterOK
<1> QED BY <1>1, <1>2, <1>3, <1>4, <1>5, <1>6, <1>7, <1>8 DEF Next

\* Configuration, names and the last verdict stay true together, for any
\* users and any cluster.
THEOREM Invariant == Spec => []IInv
BY InitOK, NextOK, PTL DEF Spec

(***************************************************************************)
(* What follows                                                            *)
(***************************************************************************)

\* The types hold.
THEOREM TypeCorrect == Spec => []TypeOK
<1>1. IInv => TypeOK
  BY DEF IInv
<1> QED BY <1>1, Invariant, PTL

\* evaluateResources and the direct path plan exactly what the policy means,
\* whatever selectors, conditions and TTL it has, and whatever the object.
THEOREM PlanIsIntendedHolds == Spec => []PlanIsIntended
<1>1. IInv => PlanIsIntended
  <2> SUFFICES ASSUME IInv, verdict \in {"kept", "planned"}, object # <<>>,
                      Sane(policy[1].spec.ttl, object[1]), Plain(policy[1].spec)
               PROVE  LET spec  == policy[1].spec
                          obj   == object[1]
                          meant == Selected(spec, obj) /\ Wanted(spec, obj) /\ Due(spec, obj)
                          legal == Allowed(safetyGate, obj, spec.behavior)
                      IN  /\ verdict = "planned" => meant
                          /\ meant /\ legal => verdict = "planned"
    BY DEF PlanIsIntended
  <2> DEFINE spec  == policy[1].spec
             obj   == object[1]
             meant == Selected(spec, obj) /\ Wanted(spec, obj) /\ Due(spec, obj)
             legal == Allowed(safetyGate, obj, spec.behavior)
  <2>1. /\ RuntimeValid(spec)
        /\ TargetKey(spec.target) \in informers
        /\ \E direct \in BOOLEAN : Planned(spec, direct) <=> verdict = "planned"
    BY DEF IInv, VerdictStands
  <2>2. PICK direct \in BOOLEAN : Planned(spec, direct) <=> verdict = "planned"
    BY <2>1
  <2>3. \E k \in Folds(spec.target.kind) : GroupOf[k] = spec.target.apiVersion
    BY <2>1 DEF IInv, InformersAreServed, TargetKey
  <2>4. IsObject(obj)
    BY ScenesAssumption DEF IInv, TypeOK
  <2>5. Planned(spec, direct) <=> meant /\ (direct \/ legal)
    BY <2>1, <2>3, <2>4, PlanMeans
  <2> HIDE DEF meant, legal
  <2>6. /\ verdict = "planned" => meant
        /\ meant /\ legal => verdict = "planned"
    BY <2>2, <2>5
  <2> QED BY <2>6 DEF meant, legal
<1> QED BY <1>1, Invariant, PTL

\* An object is deleted only where the policy names its namespace or selects
\* something, in no namespace the built-in law or the environment of the
\* process protects, of no protected kind, and never under the emergency stop:
\* also when no webhook saw the policy, or one with another environment did.
THEOREM ScopeIsBoundedHolds == Spec => ScopeIsBounded
<1> DEFINE Bounded ==
        object # <<>> /\ object' = <<>> =>
            LET target == policy[1].spec.target
            IN  /\ target.namespace = object[1].ns \/ hasSelector(target)
                /\ object[1].ns \notin protectedNamespaces
                /\ object[1].ns # "" =>
                       /\ object[1].ns # config[1].env.podNamespace
                       /\ \A ns \in config[1].env.protectedNamespaces :
                              object[1].ns # TrimSpace(ns)
                /\ object[1].kind \notin hardProtectedKinds
                /\ config[1].env.deleteEnabled \in {"", "true"}
<1>1. IInv /\ [Next]_vars => [Bounded]_vars
  <2> SUFFICES ASSUME IInv, Next, object # <<>>, object' = <<>> PROVE Bounded
    BY DEF vars
  <2> DEFINE spec == policy[1].spec
             obj == object[1]
             cfg == config[1]
  <2>1. Delete
    <3>1. \A o : object' # <<o>>
      OBVIOUS
    <3>2. ~(\E o \in Scenes[scene].objects : Edit(o))
      BY <3>1 DEF Edit
    <3>3. \A s, gate : ~(Admit(s, gate) \/ Bypass(s))
      BY DEF Admit, Bypass, Write
    <3>4. \A d : ~Reconcile(d)
      BY DEF Reconcile
    <3>5. \A start : ~Start(start)
      BY DEF Start
    <3> QED BY <3>2, <3>3, <3>4, <3>5 DEF Next, Crash, Remove, MapperChanges, Tick
  <2>2. verdict = "planned" /\ outcome' = Outcome(spec, obj) /\ outcome' = "deleted"
    BY <2>1 DEF Delete
  <2>3. Allowed(safetyGate, obj, spec.behavior)
    BY <2>2 DEF Outcome
  <2>4. PICK start \in Scenes[scene].starts :
            cfg = Configuration(start)
    BY <2>2 DEF IInv, TypeOK, ConfigIsMade
  <2>5. /\ cfg.env = start.env
        /\ cfg.deleteEnabled = (start.env.deleteEnabled \in {"", "true"})
        /\ cfg.protectedNamespaces =
               {TrimSpace(ns) : ns \in start.env.protectedNamespaces} \ {""}
        /\ cfg.ownNamespace = start.env.podNamespace
    BY <2>4, ConfigOK, ScenesAssumption DEF IInv, TypeOK
  <2>6. RuntimeValid(spec) /\ \E direct \in BOOLEAN : Planned(spec, direct)
    BY <2>2 DEF IInv, VerdictStands
  <2>7. /\ spec.target.namespace # ""
        /\ spec.target.namespace = "*" => hasSelector(spec.target)
    BY <2>6 DEF RuntimeValid, ValidatePolicy, validateTargetResource, validateNamespace,
                validateNamespaceSafety
  <2>8. spec.target.namespace \in {"", "*", obj.ns}
    BY <2>6 DEF Planned, evaluatePolicyResourcesShared, evaluateResources, matchesSelectors
  <2>9. /\ obj.ns \notin safetyGate.protected /\ ~safetyGate.deletesDisabled
        /\ obj.kind \notin hardProtectedKinds
    BY <2>3 DEF Allowed, EvaluateObject
  <2>10. cfg.env.deleteEnabled \in {"", "true"}
    BY <2>5, <2>9 DEF safetyGate, NewGate
  <2>11. /\ obj.ns \notin protectedNamespaces
         /\ obj.ns # "" => obj.ns \notin {cfg.ownNamespace} \cup cfg.protectedNamespaces
    BY <2>9 DEF safetyGate, NewGate
  <2>12. obj.ns # "" => /\ obj.ns # cfg.env.podNamespace
                        /\ \A ns \in cfg.env.protectedNamespaces : obj.ns # TrimSpace(ns)
    BY <2>5, <2>11
  <2> QED BY <2>7, <2>8, <2>9, <2>10, <2>11, <2>12
<1> HIDE DEF Bounded
<1>2. Spec => [][Bounded]_vars
  BY <1>1, Invariant, PTL DEF Spec
<1> QED BY <1>2 DEF ScopeIsBounded, Bounded

\* The runtime validation rejects what the webhooks accepted only where the
\* two processes protect different namespaces.
THEOREM ReviewedIsAcceptedHolds == Spec => []ReviewedIsAccepted
<1>1. IInv => ReviewedIsAccepted
  BY DEF IInv, StoredIsSpec, VerdictStands, ReviewedIsAccepted, RuntimeValid,
         EvaluatePolicyTarget
<1> QED BY <1>1, Invariant, PTL

\* The mutating webhook's defaults never loosen what the user wrote.
THEOREM DefaultsNeverGrantHolds == Spec => []DefaultsNeverGrant
<1>1. IInv => DefaultsNeverGrant
  BY DEF IInv
<1> QED BY <1>1, Invariant, PTL

\* A 404 at deletion time is never that of a guessed name.
THEOREM GoneMeansGoneHolds == Spec => []GoneMeansGone
<1>1. IInv => GoneMeansGone
  BY DEF IInv
<1> QED BY <1>1, Invariant, PTL

\* No guess made while the RESTMapper was away outlives its absence.
THEOREM ResolvesWhenDiscoveredHolds == Spec => []ResolvesWhenDiscovered
<1>1. IInv => ResolvesWhenDiscovered
  <2> SUFFICES ASSUME IInv, NEW kind \in DOMAIN Plural, mapper
               PROVE  ResolveGVR(kind) = Plural[kind]
    BY DEF ResolvesWhenDiscovered
  <2>1. kind \in Kinds
    BY NamesAssumption
  <2>2. gvrCache[kind] # <<>> => ResolveGVR(kind) = Plural[kind]
    BY <2>1, CachedIsServed DEF IInv
  <2> QED BY <2>2 DEF ResolveGVR, Mapped
<1> QED BY <1>1, Invariant, PTL

\* The batch size is positive, unless --batch-size itself is not.
THEOREM BatchMakesProgressHolds == Spec => []BatchMakesProgress
<1>1. IInv => BatchMakesProgress
  <2> SUFFICES ASSUME IInv, verdict = "planned"
               PROVE  \/ resolveBatchSize(policy[1].spec.behavior, config[1]) > 0
                      \/ /\ config[1].flags.batchSize # <<>>
                         /\ config[1].flags.batchSize[1] <= 0
    BY DEF BatchMakesProgress
  <2> DEFINE cfg == config[1]
             behavior == policy[1].spec.behavior
  <2>1. PICK start \in Scenes[scene].starts :
            cfg = Configuration(start)
    BY DEF IInv, TypeOK, ConfigIsMade
  <2>2. /\ cfg.flags = start.flags /\ cfg.batchSize \in Int
        /\ IF start.flags.batchSize # <<>>
           THEN cfg.batchSize = start.flags.batchSize[1]
           ELSE cfg.batchSize > 0
    BY <2>1, ConfigOK, ScenesAssumption DEF IInv, TypeOK, Numbers
  <2> HIDE DEF cfg
  <2>3. cfg.batchSize > 0 \/ (cfg.flags.batchSize # <<>> /\ cfg.flags.batchSize[1] <= 0)
    BY <2>2
  <2>4. behavior.batchSize > 0 => resolveBatchSize(behavior, cfg) = behavior.batchSize
    BY DEF resolveBatchSize
  <2>5. ~(behavior.batchSize > 0) => resolveBatchSize(behavior, cfg) = cfg.batchSize
    BY DEF resolveBatchSize
  <2> QED BY <2>3, <2>4, <2>5 DEF cfg
<1> QED BY <1>1, Invariant, PTL

\* A cycle is followed by another, unless the controller's own interval is
\* no delay.
THEOREM CycleRepeatsHolds == Spec => []CycleRepeats
<1>1. IInv => CycleRepeats
  <2> SUFFICES ASSUME IInv, verdict \in {"kept", "planned", "done"}
               PROVE  \/ EffectiveEvaluationInterval(policy[1].spec, config[1]) > 0
                      \/ config[1].env.interval.is = "int" /\ config[1].env.interval.n <= 0
                      \/ /\ config[1].flags.interval # <<>>
                         /\ config[1].flags.interval[1] <= 0
    BY DEF CycleRepeats
  <2> DEFINE cfg == config[1]
             spec == policy[1].spec
             every == spec.evaluationInterval
  <2>1. PICK start \in Scenes[scene].starts :
            cfg = Configuration(start)
    BY DEF IInv, VerdictStands, ConfigIsMade
  <2>2. /\ cfg.env = start.env /\ cfg.flags = start.flags /\ cfg.interval \in Int
        /\ IF start.flags.interval # <<>>
           THEN cfg.interval = start.flags.interval[1]
           ELSE cfg.interval > 0 \/ /\ start.env.interval.is = "int"
                                    /\ start.env.interval.n <= 0
    BY <2>1, ConfigOK, ScenesAssumption DEF IInv, TypeOK, Numbers
  <2> HIDE DEF cfg, spec
  <2>3. \/ cfg.interval > 0
        \/ cfg.env.interval.is = "int" /\ cfg.env.interval.n <= 0
        \/ cfg.flags.interval # <<>> /\ cfg.flags.interval[1] <= 0
    BY <2>2
  <2>4. Positive(every) => EffectiveEvaluationInterval(spec, cfg) = every[1] /\ every[1] > 0
    BY DEF EffectiveEvaluationInterval, Positive
  <2>5. ~Positive(every) => EffectiveEvaluationInterval(spec, cfg) = cfg.interval
    BY DEF EffectiveEvaluationInterval
  <2> QED BY <2>3, <2>4, <2>5 DEF cfg, spec
<1> QED BY <1>1, Invariant, PTL

\* Deletions run at the rate of the policy as it is stored now, or without one
\* at the built-in rate, which the configured one should replace and does not.
THEOREM PacedByPolicyHolds == Spec => []PacedByPolicy
<1>1. IInv => PacedByPolicy
  BY DEF IInv
<1> QED BY <1>1, Invariant, PTL
=============================================================================
