---- MODULE MCToyCodegen ----
(* ToyCodegen on small expressions.  Versions with the same routines that keep  *)
(* as many modules generate alike, so one of each is enough.                    *)
EXTENDS ToyCodegen

Alike(v) == <<Scripts[v], v \in OneModule>>
MCVersions == {CHOOSE v \in DOMAIN Scripts : Alike(v) = a : a \in {Alike(v) : v \in DOMAIN Scripts}}
====
