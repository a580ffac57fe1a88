------------------------------- MODULE Loader -------------------------------
(***************************************************************************)
(* read_elf's programs (asm_files.cpp): the programs of the executable     *)
(* sections are read one after the other, map references are relocated,    *)
(* calls of functions are queued, and append_subprograms copies every      *)
(* callee behind its callers and fills in the offsets of the calls.        *)
(*                                                                         *)
(* A file is what elfio has decoded: a sequence of programs, each with the *)
(* relocations that fall into it, the sections of its symbols, the fds of  *)
(* its maps, and the section the caller asks for.                          *)
(***************************************************************************)
EXTENDS Integers, Sequences, FiniteSets, SequencesExt

CONSTANTS Keys,      \* the files read: each has a key
          FileOf(_)

VARIABLES file,                  \* the file in hand
          programs,              \* res: section, function, prog (instructions), resolved
          function_relocations,  \* calls queued: program, slot, target
          unresolved,            \* whether a symbol was neither function nor map
          linking,               \* how far the loop that calls append_subprograms is
          frames,                \* its recursion
          loading                \* "reading", "linking", "done", or what was thrown

loaderVars == <<file, programs, function_relocations, unresolved, linking, frames, loading>>

(* The fields of ebpf_inst the loader looks at.                            *)
INST_CLS_MASK(opcode) == opcode % 8

INST_CLS_LD == 0

INST_OP_CALL == 133

INST_CALL_LOCAL == 1

(* Where a slot comes from, kept with it when it is copied: the index of   *)
(* its program in the file and its own.  The program does not keep this.   *)
Slots(i, text) == [k \in 1..Len(text) |-> [inst |-> text[k], origin |-> <<i, k>>]]

LoaderInit ==
    /\ \E key \in Keys : file = FileOf(key)
    /\ programs = <<>>
    /\ function_relocations = <<>>
    /\ unresolved = FALSE
    /\ linking = 1
    /\ frames = <<>>
    /\ loading = "reading"

-----------------------------------------------------------------------------
(* Reading.  A relocation is a slot and a symbol, and the symbol table     *)
(* gives the section a symbol is in: "maps" for maps, "" for none.         *)
IsCall(text, r) ==
    text[r.slot].opcode = INST_OP_CALL /\ text[r.slot].src = INST_CALL_LOCAL

IsMap(text, r) == ~IsCall(text, r) /\ file.symbols[r.symbol] = "maps"

Relocs(p, Test(_, _)) == SelectSeq(p.relocs, LAMBDA r : Test(p.text, r))

(* relocate_map writes the map's fd and the mark of an fd into the slot.   *)
(* Which descriptor a symbol stands for is MapDescriptors' concern.        *)
relocate_map(text, relocs) ==
    [k \in 1..Len(text) |->
        IF \E r \in ToSet(relocs) : r.slot = k
        THEN [text[k] EXCEPT !.src = 1,
                !.imm = file.fds[(CHOOSE r \in ToSet(relocs) : r.slot = k).symbol]]
        ELSE text[k]]

Reading == loading = "reading" /\ Len(programs) < Len(file.programs)

ReadProgram ==
    LET i == Len(programs) + 1
        p == file.programs[i]
        maps == Relocs(p, IsMap)
        calls == Relocs(p, IsCall)
    IN  /\ Reading
        /\ \A r \in ToSet(maps) : INST_CLS_MASK(p.text[r.slot].opcode) = INST_CLS_LD
        /\ programs' = Append(programs,
               [section |-> p.section, function |-> p.function,
                prog |-> Slots(i, relocate_map(p.text, maps)), resolved |-> FALSE])
        /\ function_relocations' = function_relocations \o
               [k \in 1..Len(calls) |->
                   [prog |-> i, slot |-> calls[k].slot, target |-> calls[k].symbol]]
        /\ unresolved' = (unresolved \/ Len(maps) + Len(calls) # Len(p.relocs))
        /\ UNCHANGED <<file, linking, frames, loading>>

(* Only loading the address of a map is permitted.                         *)
BadMapUse ==
    /\ Reading
    /\ LET p == file.programs[Len(programs) + 1]
       IN  \E r \in ToSet(Relocs(p, IsMap)) :
              INST_CLS_MASK(p.text[r.slot].opcode) # INST_CLS_LD
    /\ loading' = "illegal_operation"
    /\ UNCHANGED <<file, programs, function_relocations, unresolved, linking, frames>>

EndReading ==
    /\ loading = "reading" /\ Len(programs) = Len(file.programs)
    /\ loading' = IF unresolved THEN "unresolved_symbol" ELSE "linking"
    /\ UNCHANGED <<file, programs, function_relocations, unresolved, linking, frames>>

-----------------------------------------------------------------------------
(* append_subprograms.  A frame is one activation: the program it extends, *)
(* the relocation it is at, where it has appended which function, and the  *)
(* program it is about to append (0 when there is none).                   *)
Activation(p) == [prog |-> p, at |-> 1, offsets |-> <<>>, pending |-> 0]

Linking == loading = "linking"

Top == Last(frames)

SetTop(f) == [frames EXCEPT ![Len(frames)] = f]

(* The call's slot gets the distance to the slot its target begins at.     *)
Patch(prog, slot, target) == [prog EXCEPT ![slot].inst.imm = target - slot - 1]

(* The loop in read_elf, entered once for each program.                    *)
EnterProgram ==
    /\ Linking /\ frames = <<>> /\ linking <= Len(programs)
    /\ linking' = linking + 1
    /\ frames' = IF programs[linking].resolved THEN <<>> ELSE <<Activation(linking)>>
    /\ programs' = [programs EXCEPT ![linking].resolved = TRUE]
    /\ UNCHANGED <<file, function_relocations, unresolved, loading>>

(* The relocation the innermost activation is at.                          *)
AtReloc == Linking /\ frames # <<>> /\ Top.at <= Len(function_relocations)

Reloc == function_relocations[Top.at]

(* Relocations are told apart by the name of the function they are in.     *)
Applies == programs[Reloc.prog].function = programs[Top.prog].function

SkipRelocation ==
    /\ AtReloc /\ ~Applies
    /\ frames' = SetTop([Top EXCEPT !.at = @ + 1])
    /\ UNCHANGED <<file, programs, function_relocations, unresolved, linking, loading>>

find_subprogram(section, name) ==
    LET found == {i \in 1..Len(programs) :
                    programs[i].section = section /\ programs[i].function = name}
    IN  IF found = {} THEN 0 ELSE CHOOSE i \in found : \A j \in found : i <= j

Wanted == AtReloc /\ Applies /\ Top.pending = 0

Appended == Reloc.target \in DOMAIN Top.offsets

(* The offset is noted, and the callee gets its own subprograms first.     *)
ResolveSubprogram ==
    LET sub == find_subprogram(file.symbols[Reloc.target], Reloc.target)
        here == SetTop([Top EXCEPT !.pending = sub,
                          !.offsets = [t \in DOMAIN @ \cup {Reloc.target} |->
                              IF t = Reloc.target THEN Len(programs[Top.prog].prog) + 1
                              ELSE @[t]]])
    IN  /\ Wanted /\ ~Appended /\ sub # 0
        /\ frames' = IF programs[sub].resolved THEN here ELSE Append(here, Activation(sub))
        /\ programs' = [programs EXCEPT ![sub].resolved = TRUE]
        /\ UNCHANGED <<file, function_relocations, unresolved, linking, loading>>

(* Mutant of AppendSubprogram: the callee's text as it is in the file.     *)
MutAppendSubprogram ==
    LET f == Top
    IN  /\ AtReloc /\ f.pending # 0
        /\ programs' = [programs EXCEPT ![f.prog].prog =
               Patch(@ \o Slots(f.pending, file.programs[f.pending].text),
                     Reloc.slot, f.offsets[Reloc.target])]
        /\ frames' = SetTop([f EXCEPT !.at = @ + 1, !.pending = 0])
        /\ UNCHANGED <<file, function_relocations, unresolved, linking, loading>>

AppendSubprogram ==
    LET f == Top
    IN  /\ AtReloc /\ f.pending # 0
        /\ programs' = [programs EXCEPT ![f.prog].prog =
               Patch(@ \o programs[f.pending].prog, Reloc.slot, f.offsets[Reloc.target])]
        /\ frames' = SetTop([f EXCEPT !.at = @ + 1, !.pending = 0])
        /\ UNCHANGED <<file, function_relocations, unresolved, linking, loading>>

PatchCall ==
    /\ Wanted /\ Appended
    /\ programs' = [programs EXCEPT ![Top.prog].prog =
           Patch(@, Reloc.slot, Top.offsets[Reloc.target])]
    /\ frames' = SetTop([Top EXCEPT !.at = @ + 1])
    /\ UNCHANGED <<file, function_relocations, unresolved, linking, loading>>

(* The error returns through every activation; it is thrown only when the  *)
(* program read_elf is at is in the section asked for.                     *)
SubprogramMissing ==
    /\ Wanted /\ ~Appended
    /\ find_subprogram(file.symbols[Reloc.target], Reloc.target) = 0
    /\ frames' = <<>>
    /\ loading' = IF programs[frames[1].prog].section = file.desired
                  THEN "subprogram_missing" ELSE loading
    /\ UNCHANGED <<file, programs, function_relocations, unresolved, linking>>

Return ==
    /\ Linking /\ frames # <<>> /\ Top.at > Len(function_relocations)
    /\ frames' = Front(frames)
    /\ UNCHANGED <<file, programs, function_relocations, unresolved, linking, loading>>

(* Programs outside the section asked for are dropped ("" asks for all).   *)
Desired(p) == file.desired \in {"", p.section}

EndLoading ==
    /\ Linking /\ frames = <<>> /\ linking > Len(programs)
    /\ programs' = SelectSeq(programs, Desired)
    /\ loading' = IF programs' = <<>> THEN "no_program" ELSE "done"
    /\ UNCHANGED <<file, function_relocations, unresolved, linking, frames>>

LoaderStep ==
    \/ ReadProgram
    \/ BadMapUse
    \/ EndReading
    \/ EnterProgram
    \/ SkipRelocation
    \/ ResolveSubprogram
    \/ AppendSubprogram
    \/ PatchCall
    \/ SubprogramMissing
    \/ Return
    \/ EndLoading
=============================================================================
