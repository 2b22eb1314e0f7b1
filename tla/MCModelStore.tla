---------------------------- MODULE MCModelStore ----------------------------
(***************************************************************************)
(* A small instance of ModelStore, on the store the repository contains:   *)
(* the baseline (a pickled dict) is active, the champion (JSON) retired,   *)
(* the challenger (a pickled object) a candidate; the versions named by    *)
(* hand are new.                                                           *)
(***************************************************************************)
EXTENDS ModelStore

MCFormatOf == [v \in Version |-> CASE v = Challenger -> "object"
                                   [] v = Baseline -> "dict"
                                   [] OTHER -> "json"]

MCShipped == [v \in Version |->
                 [version |-> v, run |-> Origin,
                  status |-> CASE v = Baseline -> "active"
                               [] v = Champion -> "retired"
                               [] v \in Named -> "unregistered"
                               [] OTHER -> "candidate"]]
============================================================================
