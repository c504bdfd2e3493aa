------------------------------- MODULE Metrics -------------------------------
(***************************************************************************)
(* metrics-utils: the transaction managers, which measure what runs        *)
(* between start() and stop() of a key (a job's id, of which two workers   *)
(* may run at a time after a stall), and metrics of one name, which share  *)
(* the series of prom-client's registry (external): one series for each    *)
(* value of a label, or a metric of its own for each dimension.  Emitting  *)
(* a measurement may throw.                                                *)
(***************************************************************************)
EXTENDS Integers, FiniteSets

CONSTANTS
    Keys, Names,
    CustomLabels, Attributes,  \* the labels that are declared, and what callers add
    Dimensions, Amounts,       \* the dimensions or label values
    Instances,                 \* objects made for one metric
    MaxClock, MaxTotal         \* bounds

None == "none"
NoTransaction == [name |-> None, at |-> 0]

VARIABLES
    transaction,  \* transactionNameByKey and startTimeByKey
    labels,       \* customLabelsByKey, empty when the key is not there
    clock,
    run,          \* history: the run of each key as its caller knows it
    runs,         \* how many runs of each key are under way
    clean,        \* history: the run overlaps no other, and nothing of its key is left
    emitted,      \* the measurement of the last stop()
    owed,         \* history: what that stop() should have measured, if its run was clean
    config,       \* of the metric
    built,        \* the instances whose constructor ran
    cached,       \* the dimensions in the `metrics' of each
    series,       \* the registry's value of each series
    added         \* history: what they should be

transactionVars == <<transaction, labels, clock, run, runs, clean, emitted, owed>>
seriesVars == <<config, built, cached, series, added>>
vars == <<transactionVars, seriesVars>>

NoMeasurement == [name |-> None, status |-> None, duration |-> 0, labels |-> {}]

\* every instance declares dimensions; for a lazy metric, {} allows all of them
Configs ==
    [family : {"labeled", "dimensional"}, kind : {"counter", "gauge", "histogram"}, lazy : BOOLEAN,
     declared : [Instances -> SUBSET Dimensions]]

TypeOK ==
    /\ transaction \in [Keys -> [name : Names \cup {None}, at : 0..MaxClock]]
    /\ \A k \in Keys : labels[k] \subseteq Attributes
    /\ clock \in 0..MaxClock
    /\ runs \in [Keys -> 0..2] /\ clean \in [Keys -> BOOLEAN]
    /\ config \in Configs
    /\ built \subseteq Instances /\ cached \in [Instances -> SUBSET Dimensions]
    /\ DOMAIN series \subseteq Dimensions /\ added \in [Dimensions -> 0..MaxTotal]

Init ==
    /\ transaction = [k \in Keys |-> NoTransaction]
    /\ labels = [k \in Keys |-> {}]
    /\ clock = 0
    /\ run = [k \in Keys |-> [name |-> None, at |-> 0, labels |-> {}]]
    /\ runs = [k \in Keys |-> 0]
    /\ clean = [k \in Keys |-> TRUE]
    /\ emitted = NoMeasurement /\ owed = NoMeasurement
    /\ config \in Configs
    /\ built = {} /\ cached = [i \in Instances |-> {}]
    /\ series = <<>>
    /\ added = [d \in Dimensions |-> 0]

-----------------------------------------------------------------------------
(* Transactions *)

Start(k, name) ==
    /\ runs[k] < 2
    /\ transaction' = [transaction EXCEPT ![k] = [name |-> name, at |-> clock]]
    /\ runs' = [runs EXCEPT ![k] = @ + 1]
    /\ run' = [run EXCEPT ![k] = [name |-> name, at |-> clock, labels |-> {}]]
    /\ clean' = [clean EXCEPT ![k] = runs[k] = 0 /\ labels[k] = {}]
    /\ UNCHANGED <<labels, clock, emitted, owed, seriesVars>>

\* what is declared is merged with what was there: a later value of a label counts
Merge(old, attribute) ==
    {a \in old : a.label # attribute.label} \cup (IF attribute.label \in CustomLabels THEN {attribute} ELSE {})

\* addCustomAttributes, by the caller that runs
AddCustomAttributes(k, attribute) ==
    /\ runs[k] > 0
    /\ labels' = IF transaction[k].name = None THEN labels
                 ELSE [labels EXCEPT ![k] = Merge(@, attribute)]
    /\ run' = [run EXCEPT ![k].labels = Merge(@, attribute)]
    /\ UNCHANGED <<transaction, clock, runs, clean, emitted, owed, seriesVars>>

\* stop()'s finally
Forget(k) == transaction' = [transaction EXCEPT ![k] = NoTransaction]

Measurement(name, status, at, ls) ==
    [name |-> name, status |-> status, duration |-> clock - at, labels |-> ls]

\* stop(): nothing for a key that is not known; the labels go with a measurement that
\* does not throw
Stop(k, status) ==
    /\ runs[k] > 0
    /\ runs' = [runs EXCEPT ![k] = @ - 1]
    /\ owed' = IF clean[k] THEN Measurement(run[k].name, status, run[k].at, run[k].labels) ELSE NoMeasurement
    /\ IF transaction[k].name = None
       THEN emitted' = NoMeasurement /\ UNCHANGED <<transaction, labels>>
       ELSE /\ emitted' = Measurement(transaction[k].name, status, transaction[k].at, labels[k])
            /\ \/ labels' = [labels EXCEPT ![k] = {}]
               \/ UNCHANGED labels
            /\ Forget(k)
    /\ UNCHANGED <<clock, run, clean, seriesVars>>

Tick ==
    /\ clock < MaxClock /\ \E k \in Keys : runs[k] > 0
    /\ clock' = clock + 1
    /\ UNCHANGED <<transaction, labels, run, runs, clean, emitted, owed, seriesVars>>

-----------------------------------------------------------------------------
(* Series *)

Dimensional == config.family = "dimensional"

\* fault: a second instance makes the metric anew
PresentAnew(ds) == [d \in DOMAIN series \cup ds |-> IF d \in ds THEN 0 ELSE series[d]]
\* getOrCreateMetric and createMetric: series that are not there begin at 0
Present(ds) == [d \in DOMAIN series \cup ds |-> IF d \in DOMAIN series THEN series[d] ELSE 0]

\* with one label whose values are declared (lazy is FALSE), all of them are there from
\* the start; with several labels, or in a histogram, those that were measured
PreInitialized == ~config.lazy /\ config.kind # "histogram"

\* the one metric of a label is the first instance's
ConstructLabeled(i) ==
    /\ ~Dimensional /\ i \notin built
    /\ built' = built \cup {i}
    /\ series' = IF PreInitialized /\ built = {} THEN Present(config.declared[i]) ELSE series
    /\ UNCHANGED <<config, cached, added, transactionVars>>

\* an eager instance makes a metric of each dimension, unless it is there
ConstructDimensional(i) ==
    /\ Dimensional /\ i \notin built
    /\ built' = built \cup {i}
    /\ IF config.lazy THEN UNCHANGED <<cached, series>>
       ELSE /\ cached' = [cached EXCEPT ![i] = config.declared[i]]
            /\ series' = Present(config.declared[i])
    /\ UNCHANGED <<config, added, transactionVars>>

\* registerMeasurement of a counter, a gauge and a
\* histogram, of which the sum is modelled
Inc(value, amount) == value + amount
SetTo(value, amount) == amount
Observe(value, amount) == value + amount

Measured(value, amount) ==
    CASE config.kind = "counter"   -> Inc(value, amount)
      [] config.kind = "gauge"     -> SetTo(value, amount)
      [] config.kind = "histogram" -> Observe(value, amount)

RegisterLabeled(i, value, amount) ==
    /\ ~Dimensional /\ i \in built /\ added[value] + amount <= MaxTotal
    /\ series' = [Present({value}) EXCEPT ![value] = Measured(@, amount)]
    /\ added' = [added EXCEPT ![value] = Measured(@, amount)]
    /\ UNCHANGED <<config, built, cached, transactionVars>>

\* getOrRegisterMetric: a dimension that was not declared is ignored, but by a lazy
\* metric that declares none
Registers(i, dimension) ==
    \/ dimension \in cached[i]
    \/ config.lazy /\ (config.declared[i] = {} \/ dimension \in config.declared[i])

RegisterDimensional(i, dimension, amount) ==
    /\ Dimensional /\ i \in built /\ added[dimension] + amount <= MaxTotal
    /\ IF Registers(i, dimension)
       THEN /\ cached' = [cached EXCEPT ![i] = @ \cup {dimension}]
            /\ series' = [Present({dimension}) EXCEPT ![dimension] = Measured(@, amount)]
       ELSE UNCHANGED <<cached, series>>
    /\ added' = [added EXCEPT ![dimension] =
                    IF dimension \in config.declared[i] \/ (config.lazy /\ config.declared[i] = {})
                    THEN Measured(@, amount) ELSE @]
    /\ UNCHANGED <<config, built, transactionVars>>

TransactionNext ==
    \/ \E k \in Keys :
          \/ \E name \in Names : Start(k, name)
          \/ \E a \in Attributes : AddCustomAttributes(k, a)
          \/ \E status \in {"success", "error"} : Stop(k, status)
    \/ Tick

SeriesNext ==
    \E i \in Instances :
        \/ ConstructLabeled(i)
        \/ ConstructDimensional(i)
        \/ \E d \in Dimensions, amount \in Amounts :
              RegisterLabeled(i, d, amount) \/ RegisterDimensional(i, d, amount)

Next == TransactionNext \/ SeriesNext

Spec == Init /\ [][Next]_vars

-----------------------------------------------------------------------------
(* Properties *)

\* A run is measured once, with its own name, duration and labels, unless another run
\* of its key overlaps it or a measurement of the key that threw left labels behind;
\* a stop() that finds nothing measures nothing.
RunsAreMeasured ==
    /\ owed # NoMeasurement => emitted = owed
    /\ \A k \in Keys : runs[k] = 0 => transaction[k] = NoTransaction

\* Whatever instances were made of a metric and when, each series has what they
\* measured for its dimension; an eager dimensional metric has a series for all that
\* it declares and for nothing else; and instances that declare other values of a label
\* do not have them before they measure them.
SeriesAreDeclared ==
    LET Declared == UNION {config.declared[i] : i \in built}
    IN  /\ \A d \in Dimensions : (IF d \in DOMAIN series THEN series[d] ELSE 0) = added[d]
        /\ Dimensional /\ ~config.lazy => DOMAIN series = Declared
        /\ Dimensional /\ config.lazy /\ (\A i \in built : config.declared[i] # {})
              => DOMAIN series \subseteq Declared
        /\ \A d \in DOMAIN series : d \in Declared \/ config.lazy \/ ~Dimensional

-----------------------------------------------------------------------------
(* The inductive invariants *)

\* A run that overlaps no other is the one that the manager knows
RunsInv ==
    /\ transaction \in [Keys -> [name : Names \cup {None}, at : Int]]
    /\ run \in [Keys -> [name : Names \cup {None}, at : Int, labels : SUBSET Attributes]]
    /\ labels \in [Keys -> SUBSET Attributes] /\ clock \in Int
    /\ runs \in [Keys -> 0..2] /\ clean \in [Keys -> BOOLEAN]
    /\ RunsAreMeasured
    /\ \A k \in Keys :
          /\ transaction[k].name = None => transaction[k] = NoTransaction
          /\ runs[k] = 2 => ~clean[k]
          /\ runs[k] = 1 /\ clean[k]
                => /\ transaction[k] = [name |-> run[k].name, at |-> run[k].at]
                   /\ transaction[k].name # None /\ labels[k] = run[k].labels

\* An instance has the dimensions that it declares, and a lazy one no other
SeriesInv ==
    /\ config \in Configs /\ built \subseteq Instances
    /\ cached \in [Instances -> SUBSET Dimensions]
    /\ DOMAIN series \subseteq Dimensions /\ series = [d \in DOMAIN series |-> series[d]]
    /\ added \in [Dimensions -> Nat]
    /\ SeriesAreDeclared
    /\ \A i \in Instances :
          /\ config.lazy /\ config.declared[i] # {} => cached[i] \subseteq config.declared[i]
          /\ ~config.lazy /\ Dimensional /\ i \in built => cached[i] = config.declared[i]
=============================================================================
