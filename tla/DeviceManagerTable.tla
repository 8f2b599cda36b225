------------------------- MODULE DeviceManagerTable --------------------------
(***************************************************************************)
(* The table of registered device managers: ZMQDeviceManagerTable.  Each   *)
(* operation is one step under m_mutex.                                    *)
(***************************************************************************)
EXTENDS Naturals, Sequences, SequencesExt

CONSTANTS
  UINT8_MAX,  \* the largest number of a manager
  Technologies    \* the technologies

ASSUME MaxAssumption == UINT8_MAX \in Nat

VARIABLE table  \* m_deviceManagers, in the order of registration

(* DeviceManagerID: the number of a manager is unique among all prefixes. *)
Identities == [prefix : Technologies, ident : 0..UINT8_MAX]

(* The length of the run of entries that count up by one from the front;   *)
(* getFirstEmptyID() follows it and returns the number behind it, in eight *)
(* bits.                                                                   *)
CountingUp(list) ==
  CHOOSE n \in 1..Len(list) :
    /\ \A k \in 1..n : list[k].ident = (list[1].ident + k - 1) % (UINT8_MAX + 1)
    /\ n < Len(list) => list[n + 1].ident # (list[1].ident + n) % (UINT8_MAX + 1)

FirstEmptyID ==
  IF table = << >> THEN 0
  ELSE (table[1].ident + CountingUp(table)) % (UINT8_MAX + 1)

(* Mutated: one manager more than there are numbers. *)
FullLate == Len(table) > UINT8_MAX + 1

(* fromPrefix() throws a RangeException. *)
Full == Len(table) > UINT8_MAX

Register(prefix) ==
  /\ ~Full
  /\ table' = Append(table, [prefix |-> prefix, ident |-> FirstEmptyID])

(* getAll() for a prefix, and for any: the managers a command goes to. *)
GetAll(prefix) ==
  SelectSeq(table, LAMBDA entry : entry.prefix = prefix)

GetEverybody == table

IsRegistered(prefix) == \E k \in 1..Len(table) : table[k].prefix = prefix
=============================================================================
