------------------------------ MODULE Generators ------------------------------
(***************************************************************************)
(* ValueGenerator: a source of numbers and the generators laid over it,    *)
(* read as VirtualSensor::run() does: next() behind hasNext().  Numbers    *)
(* are in thousandths; a Timestamped generator below a TimeLimited one is  *)
(* copied into it, so the two are one layer.                               *)
(***************************************************************************)
EXTENDS Integers, Sequences

CONSTANTS None,
          Chains,  \* [source, layers], the innermost layer first
          Length   \* bound: how many numbers are read

VARIABLES chain,  \* the generator, or None: its layers with what is left of them
          read    \* what has been read: the number, and when it is from

generatorVars == <<chain, read>>

Wrap == 16  \* in place of 2^32: a count is unsigned

Sources == {"const", "sin", "random"}
Layers ==
  [kind : {"range"}, min : Int, max : Int] \cup [kind : {"limited"}, count : 0..(Wrap - 1)] \cup
  [kind : {"timestamped"}, at : Int, step : Int] \cup
  [kind : {"timeLimited"}, at : Int, step : Int, before : Int]

GeneratorsInit == chain = None /\ read = <<>>

(* The constructor of RangeGenerator throws when the range is empty. *)
Make(c) ==
  /\ chain = None
  /\ \A i \in DOMAIN c.layers : c.layers[i].kind = "range" => c.layers[i].min < c.layers[i].max
  /\ chain' = c /\ UNCHANGED read

(* A source never ends.  The number of a sine depends on its step. *)
NextNumbers ==
  CASE chain.source = "const"  -> {700}
    [] chain.source = "sin"    -> {-1000, 0, 841, 1000}
    [] chain.source = "random" -> {0, 1, 999, 1000}

(* hasNext(): LimitedGenerator counts, whatever is below it; a range does  *)
(* not look at what is below it at all.                                    *)
More(below, layer) ==
  CASE layer.kind = "range"       -> TRUE
    [] layer.kind = "limited"     -> layer.count > 0
    [] layer.kind = "timestamped" -> below
    [] layer.kind = "timeLimited" -> layer.at < layer.before /\ below

HasNext(layers) ==
  LET more[k \in 0..Len(layers)] == IF k = 0 THEN TRUE ELSE More(more[k - 1], layers[k])
  IN  more[Len(layers)]

(* next(): the number on its way through a layer, *)
Through(number, layer) ==
  IF layer.kind = "range" THEN (number * (layer.max - layer.min)) \div 1000 + layer.min ELSE number

Taken(number, layers) ==
  LET through[k \in 0..Len(layers)] == IF k = 0 THEN number ELSE Through(through[k - 1], layers[k])
  IN  through[Len(layers)]

(* ... and what becomes of the layer. *)
Counted(layer) ==
  CASE layer.kind = "range"   -> layer
    [] layer.kind = "limited" -> [layer EXCEPT !.count = (@ - 1) % Wrap]
    [] OTHER                  -> [layer EXCEPT !.at = @ + layer.step]

Times(layers) == {i \in DOMAIN layers : layers[i].kind \in {"timestamped", "timeLimited"}}

(* The step is added to the time of the number that has just been read. *)
ReadNext ==
  /\ chain # None /\ Len(read) < Length /\ HasNext(chain.layers)
  /\ \E number \in NextNumbers :
       read' = Append(read, [number |-> Taken(number, chain.layers),
                             at |-> {chain.layers[i].at : i \in Times(chain.layers)}])
  /\ chain' = [chain EXCEPT !.layers = [i \in DOMAIN @ |-> Counted(@[i])]]

GeneratorsNext == ReadNext \/ \E c \in Chains : Make(c)

(* The layers that still have a say: an outer range or count asks nobody   *)
(* below it.                                                               *)
Heard(layers) ==
  {i \in DOMAIN layers :
     \A j \in i..Len(layers) : layers[j].kind # "range" /\ (layers[j].kind = "limited" => j = i)}

(* How many numbers a layer had to give at the start: Length when it never *)
(* ends.                                                                   *)
Given(layer) ==
  CASE layer.kind = "limited"     -> (layer.count + Len(read)) % Wrap
    [] layer.kind = "timeLimited" ->
         LET start == layer.at - Len(read) * layer.step
         IN  CASE start >= layer.before -> 0
               [] start < layer.before /\ layer.step <= 0 -> Length
               [] OTHER -> (layer.before - start + layer.step - 1) \div layer.step
    [] OTHER                      -> Length

(* A chain ends exactly when a layer with a say is used up; its numbers    *)
(* lie where a single range wants them unless the source is a sine; and    *)
(* their times are the step of each layer apart.                           *)
GeneratedRight ==
  chain # None =>
  /\ \A i \in Heard(chain.layers) : Len(read) <= Given(chain.layers[i])
  /\ HasNext(chain.layers) \/ \E i \in Heard(chain.layers) : Len(read) = Given(chain.layers[i])
  /\ \A i \in DOMAIN chain.layers :
       /\ chain.layers[i].kind = "range" /\ chain.source # "sin"
            /\ (\A j \in DOMAIN chain.layers : chain.layers[j].kind = "range" => j = i)
          => \A n \in DOMAIN read : chain.layers[i].min <= read[n].number /\ read[n].number <= chain.layers[i].max
       /\ i \in Times(chain.layers) =>
            \A n \in DOMAIN read : chain.layers[i].at - (Len(read) + 1 - n) * chain.layers[i].step \in read[n].at
=============================================================================
