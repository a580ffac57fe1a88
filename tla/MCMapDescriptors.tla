-------------------------- MODULE MCMapDescriptors --------------------------
(***************************************************************************)
(* Maps of a few types and sizes.  The type numbers are the platform's: a  *)
(* hash, a map of maps, an array and an array of programs.                 *)
(***************************************************************************)
EXTENDS MapDescriptors, TLC

MCMapTypes ==
    1 :> [value_type |-> "ANY", is_array |-> FALSE]
      @@ 2 :> [value_type |-> "MAP", is_array |-> FALSE]
      @@ 3 :> [value_type |-> "ANY", is_array |-> TRUE]
      @@ 4 :> [value_type |-> "PROGRAM", is_array |-> TRUE]

Def(type, value_size, max_entries, inner) ==
    [type |-> type, key_size |-> 4, value_size |-> value_size, max_entries |-> max_entries, inner |-> inner]

MCMapDefs ==
    {Def(1, 4, 1, 0), Def(1, 4, 2, 0), Def(1, 8, 1, 2), Def(2, 4, 1, 0), Def(2, 4, 1, 1),
     Def(3, 4, 1, 0), Def(3, 4, 2, 0), Def(4, 4, 1, 0)}

(* The definitions of the .maps section: one for each type id.             *)
BtfDef(id, def) == [type_id |-> id] @@ def

MCBtfDefs ==
    {BtfDef(7, Def(1, 4, 1, 0)), BtfDef(5, Def(2, 4, 1, 7)), BtfDef(9, Def(3, 8, 2, 0)),
     BtfDef(3, Def(2, 4, 1, 9))}
=============================================================================
