------------------------------ MODULE Counters ------------------------------
(***************************************************************************)
(* CCounterRec and CCounterDb of src/emu/core/counters.go.                *)
(*                                                                         *)
(* A counter record is [name, cnt, dumpZero]: cnt is the field of the     *)
(* owner's stats record that the record's Counter pointer points at, so   *)
(* the value is read from the owner's current stats, given as the         *)
(* function val.  Every counter of the modelled databases is a *uint64;   *)
(* Help, Unit and Info are metadata that only MarshalMeta shows and are   *)
(* left out, and so are Dump and the string formatting of values.        *)
(***************************************************************************)
EXTENDS Naturals, Sequences

(* NewCCounterDb: an empty Vec.                                            *)
NewCCounterDb == <<>>

(* CCounterDb.Add appends the record.                                      *)
CounterDbAdd(db, rec) == Append(db, rec)

(* CCounterRec.IsZero: the pointed-at value is 0.                          *)
IsZero(rec, val) == val[rec.cnt] = 0

(* CCounterRec.IsValid: dumped when DumpZero is set or the value is not 0. *)
IsValid(rec, val) == rec.dumpZero \/ ~IsZero(rec, val)

(* CCounterDb.MarshalValues(zero): the map from name to counter of every  *)
(* record that zero or IsValid admits; the loop runs over Vec in order,   *)
(* so of two records with one name the later one is in the map.           *)
MarshalValues(db, val, zero) ==
  LET picked == {i \in DOMAIN db : zero \/ IsValid(db[i], val)}
      lastOf(n) == CHOOSE i \in picked :
                     /\ db[i].name = n
                     /\ \A j \in picked : db[j].name = n => j <= i
  IN [n \in {db[i].name : i \in picked} |-> val[db[lastOf(n)].cnt]]

====
