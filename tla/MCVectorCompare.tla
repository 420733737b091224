---------------------------- MODULE MCVectorCompare ----------------------------
\* Registers of eight bits with elements of two, four and eight, and one
\* instruction or more of every class, with the encodings of the extension.
EXTENDS VectorCompare

Configured(vl, sew, lmul, vta, vma) ==
    [vl |-> vl, sew |-> sew, lmul |-> lmul, vta |-> vta, vma |-> vma]
Blank == [op |-> "arith", class |-> "vector", vd |-> 2, form |-> 0, funct |-> 0, vs1 |-> 1,
          vm |-> TRUE, nf |-> 0, mop |-> 0, lumop |-> 0, width |-> 0, offset |-> 0,
          base |-> 0, stride |-> 0, sets |-> {}]
Arith(class, form, funct, vs1, vm) ==
    [Blank EXCEPT !.class = class, !.form = form, !.funct = funct, !.vs1 = vs1, !.vm = vm]
MemoryOp(op, class, mop, lumop, width, nf, vm) ==
    [Blank EXCEPT !.op = op, !.class = class, !.mop = mop, !.lumop = lumop, !.width = width,
                  !.nf = nf, !.vm = vm]

Arithmetic ==
    { Arith("vector", 0, 0, 1, TRUE), Arith("vector", 4, 0, 1, FALSE),     \* vadd
      Arith("vector", 2, 20, 17, FALSE),                                   \* vid
      Arith("slide_up", 3, 14, 1, TRUE), [Arith("slide_up", 3, 14, 1, FALSE) EXCEPT !.offset = 1],
      Arith("carry_in", 0, 16, 1, FALSE), Arith("carry_out", 0, 17, 1, FALSE), \* vadc, vmadc
      Arith("merge", 3, 23, 1, FALSE), Arith("merge", 5, 23, 1, FALSE),    \* vmerge, vfmerge
      Arith("compare", 0, 24, 1, FALSE), Arith("compare", 5, 29, 1, TRUE), \* vmseq, vmfgt
      Arith("mask_logical", 2, 26, 1, TRUE), Arith("set_first", 2, 20, 2, FALSE), \* vmor, vmsof
      Arith("reduction", 2, 0, 1, TRUE), Arith("reduction", 1, 3, 1, FALSE), \* vredsum, vfredosum
      Arith("widening_reduction", 0, 49, 1, TRUE),                         \* vwredsum
      Arith("insert", 6, 16, 0, TRUE), Arith("insert", 5, 16, 0, TRUE),    \* vmv.s.x, vfmv.s.f
      Arith("scalar", 2, 16, 0, TRUE),                                     \* vmv.x.s
      Arith("widening", 2, 59, 1, FALSE), Arith("widening", 1, 18, 10, TRUE), \* vwmul, vfwcvt.f.xu
      Arith("whole_move", 3, 39, 1, TRUE), Arith("compress", 2, 23, 1, TRUE) }
\* A mask that the instruction behind it uses.
ToMask == {[Arith("compare", 0, 25, 1, FALSE) EXCEPT !.vd = 0],
           [Arith("reduction", 2, 0, 1, FALSE) EXCEPT !.vd = 0],
           [MemoryOp("load", "mask_load", 0, 11, 0, 0, TRUE) EXCEPT !.vd = 0]}
Loads ==
    { MemoryOp("load", "load", 0, 0, 0, 0, FALSE), MemoryOp("load", "load", 2, 8, 5, 0, TRUE),
      MemoryOp("load", "load", 0, 0, 0, 1, FALSE), MemoryOp("load", "indexed_load", 1, 8, 0, 0, FALSE),
      MemoryOp("load", "indexed_load", 3, 11, 5, 1, TRUE),
      MemoryOp("load", "whole_load", 0, 8, 5, 1, TRUE) }
Stores ==
    { MemoryOp("store", "unit_store", 0, 0, 0, 0, FALSE),
      MemoryOp("store", "scattered_store", 2, 0, 0, 0, TRUE),
      [MemoryOp("store", "scattered_store", 1, 0, 5, 0, FALSE) EXCEPT !.stride = 1],
      [MemoryOp("store", "scattered_store", 2, 0, 0, 1, TRUE) EXCEPT !.stride = 1],
      [MemoryOp("store", "scattered_store", 0, 0, 0, 1, TRUE) EXCEPT !.stride = 2],
      MemoryOp("store", "whole_store", 0, 8, 0, 1, TRUE), MemoryOp("store", "mask_store", 0, 11, 0, 0, TRUE) }

Vset(sets) == [Blank EXCEPT !.op = "config", !.class = "config", !.sets = sets]
Vstart(n) == [Blank EXCEPT !.op = "csrw", !.class = "csrw", !.base = n]
Shapes == {Configured(vl, 1, 1, ta, ma) : vl \in {0, 1, 3}, ta \in BOOLEAN, ma \in BOOLEAN}
          \cup {Configured(vl, 1, 2, ta, ma) : vl \in {6}, ta \in BOOLEAN, ma \in BOOLEAN}
          \cup {Configured(vl, 2, vl, ta, ~ta) : vl \in {1, 2}, ta \in BOOLEAN}
          \cup {Configured(1, 4, 1, ta, ta) : ta \in BOOLEAN}
Undisturbed == {Configured(3, 1, 1, FALSE, FALSE)}

\* A configuration, the instruction, and a masked one that leaves elements of
\* the same register as the first has left them; some start behind vstart.
MCPrograms ==
    {<<Vset({shape}), i, Vset(Undisturbed), Arith("vector", 4, 0, 1, FALSE)>> :
       shape \in Shapes, i \in Arithmetic \cup Loads \cup ToMask \cup Stores}
    \cup {<<Vset({shape}), Vstart(n), i>> :
       shape \in Shapes, n \in {1, 3}, i \in {Arith("vector", 4, 0, 1, FALSE), Arith("compare", 0, 24, 1, FALSE),
                                              MemoryOp("load", "load", 0, 0, 0, 0, FALSE),
                                              MemoryOp("store", "unit_store", 0, 0, 0, 0, TRUE)}}
    \cup {<<Vset(Shapes)>>}

MCAddresses == 0..15
Pattern(f) == [bit \in Bits |-> f[bit + 1]]
MCContents ==
    { [reg \in Registers |-> CASE reg = 0 -> Pattern(<<0, 1, 0, 1, 1, 0, 1, 0>>)
                               [] reg = 1 -> Pattern(<<0, 1, 1, 0, 0, 0, 1, 1>>)
                               [] reg = 2 -> Pattern(<<0, 0, 1, 0, 0, 1, 1, 1>>)
                               [] OTHER -> Pattern(<<0, 1, 0, 0, 1, 1, 1, 0>>)],
      [reg \in Registers |-> CASE reg = 0 -> Pattern(<<1, 0, 1, 0, 0, 1, 0, 1>>)
                               [] OTHER -> Pattern(<<0, 0, 0, 0, 0, 0, 0, 0>>)] }
MCResults == {[bits |-> Pattern(<<0, 1, 0, 1, 0, 1, 0, 1>>), raised |-> {}],
              [bits |-> Pattern(<<1, 0, 1, 0, 1, 0, 1, 0>>), raised |-> {"fflags"}]}
NoFaults == {[kind |-> "none"]}
MCFaults ==
    NoFaults \cup {[kind |-> kind] : kind \in {"lost", "group", "base", "flags", "first", "scatter", "width", "fields"}}
    \cup {[kind |-> "bit", reg |-> reg, bit |-> bit] : reg \in {0, 2, 3}, bit \in {0, 3, 7}}
    \cup {[kind |-> kind, byte |-> byte] : kind \in {"mask", "address", "data", "swap"}, byte \in 0..3}
=============================================================================
