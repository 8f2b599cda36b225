----------------------------- MODULE Statistics ------------------------------
(***************************************************************************)
(* SimpleCollector: it collects what is exported, device by device and     *)
(* module by module, and from time to time its loop prints statistics of   *)
(* the last span.  Times are ticks since some moment after 2015; a device  *)
(* without a clock gives an incomplete time, which is one before that.     *)
(***************************************************************************)
EXTENDS Integers, Sequences, FiniteSets

CONSTANTS Samples,     \* what devices export: [device, values]
          Interval,    \* m_exportInterval
          MaxTime, MaxSamples  \* bounds of the model

VARIABLES clock,
          collected,  \* m_data: device |-> its modules, each [module, values]
          printedAt,  \* when the loop has printed
          printed,    \* what it has printed then: entries and sums; of how many exports
          measured    \* everything that has been exported

statisticsVars == <<clock, collected, printedAt, printed, measured>>

Nothing == [entries |-> {}, devices |-> 0, modules |-> 0, exports |-> 0]

StatisticsInit ==
  /\ clock = 0 /\ collected = <<>> /\ printedAt = 0
  /\ printed = Nothing /\ measured = <<>>

(* DeviceDataCollection::insertData(): to the values of a module that is   *)
(* there, or to a new one.                                                 *)
InsertValue(modules, time, value) ==
  LET sample == [time |-> time, value |-> value.value, valid |-> value.valid]
  IN  IF \E i \in DOMAIN modules : modules[i].module = value.module
      THEN LET i == CHOOSE j \in DOMAIN modules : modules[j].module = value.module
           IN  [modules EXCEPT ![i].values = Append(@, sample)]
      ELSE Append(modules, [module |-> value.module, values |-> <<sample>>])

InsertData(modules, time, values) ==
  LET all[k \in 0..Len(values)] ==
        IF k = 0 THEN modules ELSE InsertValue(all[k - 1], time, values[k])
  IN  all[Len(values)]

OnExport ==
  \E data \in Samples, time \in {clock, -Interval - 1} :
    /\ Len(measured) < MaxSamples
    /\ LET before == IF data.device \in DOMAIN collected THEN collected[data.device] ELSE <<>>
           after == InsertData(before, time, data.values)
       IN  collected' = [device \in DOMAIN collected \cup {data.device} |->
                           IF device = data.device THEN after ELSE collected[device]]
    /\ measured' = Append(measured, [time |-> time, data |-> data])
    /\ UNCHANGED <<clock, printedAt, printed>>

(* StatisticsData: a new one has the largest double as its minimum and the *)
(* least positive one, which prints as nothing, as its maximum.            *)
Largest == 1000
Least == 0
New == [min |-> Largest, max |-> Least, sum |-> 0, invalid |-> 0, values |-> <<>>]

InsertSample(stat, value) ==
  [stat EXCEPT !.values = Append(@, value), !.sum = @ + value,
               !.max = IF value > @ THEN value ELSE @, !.min = IF value < @ THEN value ELSE @]

InsertInvalid(stat) == [stat EXCEPT !.invalid = @ + 1]

Insert(stat, sample) == IF sample.valid THEN InsertSample(stat, sample.value) ELSE InsertInvalid(stat)

(* The k-th of the sorted values. *)
Ranked(values, k) ==
  CHOOSE v \in {values[i] : i \in DOMAIN values} :
    /\ Cardinality({i \in DOMAIN values : values[i] < v}) < k
    /\ Cardinality({i \in DOMAIN values : values[i] <= v}) >= k

(* Twice the median of an even number of values.  Of an odd number it is   *)
(* the value before the one in the middle, of a single one something in    *)
(* front of it: nothing is said of these here.                             *)
Median2(values) ==
  LET half == Len(values) \div 2
  IN  IF Len(values) % 2 = 0 THEN Ranked(values, half) + Ranked(values, half + 1) ELSE 0

(* computeLastStats() *)
Seen(stat, sample) == IF clock - sample.time <= Interval THEN Insert(stat, sample) ELSE stat

StatOf(module) ==
  LET stat[k \in 0..Len(module.values)] ==
        IF k = 0 THEN New ELSE Seen(stat[k - 1], module.values[k])
  IN  stat[Len(module.values)]

(* exportStatistics(): nothing is printed of a module without valid values. *)
EntryOf(device, module) ==
  LET stat == StatOf(module)
  IN  IF stat.values = <<>> THEN {}
      ELSE {[device |-> device, module |-> module.module, min |-> stat.min, max |-> stat.max,
             sum |-> stat.sum, size |-> Len(stat.values), median2 |-> Median2(stat.values),
             invalid |-> stat.invalid]}

(* The sum of what some keys have. *)
SumOf(number, keys) ==
  LET sum[some \in SUBSET keys] ==
        IF some = {} THEN 0
        ELSE LET key == CHOOSE k \in some : TRUE
             IN  number[key] + sum[some \ {key}]
  IN  sum[keys]

DevicesCount == Cardinality(DOMAIN collected)
ModulesCount == SumOf([device \in DOMAIN collected |-> Len(collected[device])], DOMAIN collected)

ExportStatistics ==
  [entries |-> UNION {UNION {EntryOf(device, collected[device][i]) : i \in DOMAIN collected[device]} :
                        device \in DOMAIN collected},
   devices |-> DevicesCount,
   modules |-> ModulesCount,
   exports |-> Len(measured)]

(* run(): whenever the interval is over, or somewhat later. *)
PrintStatistics ==
  /\ clock >= printedAt + Interval
  /\ printedAt' = clock /\ printed' = ExportStatistics
  /\ UNCHANGED <<clock, collected, measured>>

Tick ==
  /\ clock < MaxTime
  /\ clock' = clock + 1
  /\ UNCHANGED <<collected, printedAt, printed, measured>>

StatisticsNext == OnExport \/ PrintStatistics \/ Tick

(***************************************************************************)
(* What is printed are the statistics of what has been measured since one  *)
(* interval ago, device by device and module by module, whatever order and *)
(* mixture it came in.  Nothing is said of the maximum of values that are  *)
(* all negative, and of the median of an odd number of values.             *)
(***************************************************************************)
MeasuredAt == UNION {{i} \X DOMAIN measured[i].data.values : i \in 1..printed.exports}
ValueAt(at) == measured[at[1]].data.values[at[2]]
SampleValues == [at \in MeasuredAt |-> ValueAt(at).value]

OfModule(device, module) ==
  {at \in MeasuredAt : measured[at[1]].data.device = device /\ ValueAt(at).module = module}

Recent(device, module, valid) ==
  {at \in OfModule(device, module) : ValueAt(at).valid = valid /\ measured[at[1]].time + Interval >= printedAt}

Lowest(number, samples) ==
  CHOOSE least \in {number[at] : at \in samples} : \A at \in samples : least <= number[at]
Highest(number, samples) ==
  CHOOSE most \in {number[at] : at \in samples} : \A at \in samples : most >= number[at]

(* As many samples up to the lower of the two as from the higher one on,   *)
(* and none between them.                                                  *)
IsMedian2(median2, number, samples) ==
  \E low, high \in samples :
    /\ low # high /\ median2 = number[low] + number[high]
    /\ \A at \in samples : number[at] <= number[low] \/ number[at] >= number[high]
    /\ 2 * Cardinality({at \in samples : number[at] <= number[low]}) >= Cardinality(samples)
    /\ 2 * Cardinality({at \in samples : number[at] >= number[high]}) >= Cardinality(samples)

EntryIsRight(entry) ==
  LET samples == Recent(entry.device, entry.module, TRUE)
  IN  /\ entry.size = Cardinality(samples)
      /\ entry.invalid = Cardinality(Recent(entry.device, entry.module, FALSE))
      /\ entry.sum = SumOf(SampleValues, samples)
      /\ entry.min = Lowest(SampleValues, samples)
      /\ Highest(SampleValues, samples) >= 0 => entry.max = Highest(SampleValues, samples)
      /\ entry.size % 2 = 0 => IsMedian2(entry.median2, SampleValues, samples)

Pairs == {<<measured[at[1]].data.device, ValueAt(at).module>> : at \in MeasuredAt}

StatisticsAreRight ==
  /\ \A entry \in printed.entries : EntryIsRight(entry)
  /\ {<<entry.device, entry.module>> : entry \in printed.entries} =
       {pair \in Pairs : Recent(pair[1], pair[2], TRUE) # {}}
  /\ printed.modules = Cardinality(Pairs)
  /\ printed.devices = Cardinality({measured[i].data.device : i \in 1..printed.exports})
=============================================================================
