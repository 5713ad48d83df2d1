----------------------------- MODULE Snapshot -----------------------------
(***************************************************************************)
(* A program written as a snapshot on one machine and read on another      *)
(* (snapshot.cc, snapshot.h, Program::SnapshotGC).  The writer moves the   *)
(* boxed doubles to the front, codes pointers as distances between the     *)
(* addresses objects would have with 4-byte words and floats, and lets an  *)
(* oracle pick one of two registers to code each distance from; the reader *)
(* turns the distances into addresses of its own layout.                   *)
(*                                                                         *)
(* A snapshot is a sequence of bytes.  An instruction's first byte is as   *)
(* in the code; the bytes of its argument have ByteBits bits, and the      *)
(* integers of a portable program 4 * ByteBits.  A double or the version   *)
(* is one entry of the sequence.                                           *)
(***************************************************************************)
EXTENDS Integers, Sequences, FiniteSets, SequencesExt

CONSTANTS
  ByteBits,         \* bits of an argument byte (8 in the code)
  Popular,          \* kSnapshotNumberOfPopularObjects
  PopularCoded,     \* popular objects that have a byte code of their own
  kStatesLog2,      \* pointers the oracle looks ahead
  Integer,          \* integers a program may hold
  MaxElements,      \* bound: elements of the program's array
  MaxBytes,         \* bound: length of its byte array
  MaxDoubles        \* bound: doubles

VARIABLES
  stage,     \* "program", "write", "read", "fix", "done"
  writer,    \* layout of the machine that writes
  reader,    \* layout of the machine that reads
  objects,   \* the program's heap: a sequence of objects
  popular,   \* PopularityCounter::most_popular_
  oracle,    \* the scripts of the two oracles and what is left of them
  bytes,     \* the snapshot
  memory,    \* what the reader has made: the words of its heap
  failed     \* assertions that failed

snapVars == <<stage, writer, reader, objects, popular, oracle, bytes, memory,
              failed>>

---------------------------------------------------------------------------
(* Objects.  An object is a sequence of items; an item is a class pointer  *)
(* or pointer (the object's name), an integer, a code address, raw bytes,  *)
(* byte codes or a float.  The names are those of the program below.       *)

Ptr(o)   == [k |-> "ptr", v |-> o]
Num(n)   == [k |-> "int", v |-> n]
Code(n)  == [k |-> "code", v |-> n]
Raw(s)   == [k |-> "raw", v |-> s]
Codes(s) == [k |-> "bytecodes", v |-> s]
Float(x) == [k |-> "float", v |-> x]

Layouts == {[word |-> w, float |-> f] : w \in {4, 8}, f \in {4, 8}}
Ideal == [word |-> 4, float |-> 4]

RoundUp(n, m) == ((n + m - 1) \div m) * m

\* PortableSize: the bytes an item takes in a layout.
ItemSize(item, layout) ==
  CASE item.k \in {"ptr", "int", "code"} -> layout.word
    [] item.k \in {"raw", "bytecodes"} -> RoundUp(Len(item.v), layout.word)
    [] item.k = "float" -> layout.float

Sum(s) == FoldLeft(LAMBDA a, b : a + b, 0, s)

ObjectSize(items, layout) ==
  Sum([i \in DOMAIN items |-> ItemSize(items[i], layout)])

IsDouble(items) == \E i \in DOMAIN items : items[i].k = "float"

\* PortableAddressMap: the address of the i-th object in a layout.
AddressAt(heap, i, layout) ==
  Sum([j \in 1..(i - 1) |-> ObjectSize(heap[j].items, layout)])

IndexOf(heap, name) == CHOOSE i \in DOMAIN heap : heap[i].name = name
TotalFloats(heap) == Cardinality({i \in DOMAIN heap : IsDouble(heap[i].items)})
HeapSize(heap, layout) == AddressAt(heap, Len(heap) + 1, layout)
DoublesSize(heap, layout) ==
  TotalFloats(heap) * (layout.word + layout.float)

\* An address as the snapshot counts it: from the first object that is no
\* double.
IdealizedAddress(heap, name) ==
  AddressAt(heap, IndexOf(heap, name), Ideal) - DoublesSize(heap, Ideal)

---------------------------------------------------------------------------
(* The program.  Byte codes: LoadConst is one byte and an offset of four,  *)
(* held in the first of them; the literals follow the byte codes, on a     *)
(* word boundary.                                                          *)

LoadConst == 1
Pop == 2
MethodEnd == 3

LoadConsts(size, pops, word) ==
  LET offset(i) == RoundUp(size, word) - i
  IN <<LoadConst, offset(0), 0, 0, 0>> \o [i \in 1..pops |-> Pop]
       \o <<LoadConst, offset(5 + pops) + word, 0, 0, 0, MethodEnd>>

DoubleName == <<"double 1", "double 2", "double 3">>

Doubles(n) == [i \in 1..n |->
  [name |-> DoubleName[i], items |-> <<Ptr("double class"), Float(i)>>]]

ClassItems(super) ==
  <<Ptr("class class"), Ptr(super), Num(4), Num(0), Ptr("null"), Ptr("null")>>

\* Heap of a program with the given array elements, byte array, number of
\* other byte codes and doubles, as the writing machine holds it.
ProgramHeap(elements, n, pops, doubles, word) ==
  <<[name |-> "class class", items |-> ClassItems("null")],
    [name |-> "double class", items |-> ClassItems("null")],
    [name |-> "null", items |-> <<Ptr("class class"), Num(0)>>],
    [name |-> "array", items |-> <<Ptr("class class"), Num(Len(elements))>>
                                   \o elements],
    [name |-> "function",
     items |-> <<Ptr("class class"), Num(11 + pops), Num(2), Num(0),
                 Codes(LoadConsts(11 + pops, pops, word)),
                 Ptr("array"), Ptr("null")>>],
    [name |-> "bytes", items |-> <<Ptr("class class"), Num(n)>> \o
        (IF n = 0 THEN <<>> ELSE <<Raw([i \in 1..n |-> i])>>)],
    [name |-> "entry", items |-> <<Ptr("class class"), Ptr("function"),
                                   Code(1), Num(2), Num(3)>>]>>
    \o Doubles(doubles)

\* Program::IterateRootsIgnoringSession.
Roots(heap) == <<"null", "double class", "array", "entry", "bytes">>
                 \o SubSeq(DoubleName, 1, TotalFloats(heap))

Elements == {Num(n) : n \in Integer}
              \cup {Ptr(o) : o \in {"function", "bytes", "double 1"}}

---------------------------------------------------------------------------
(* SnapshotGC. *)

Pointers(items) == SelectSeq(items, LAMBDA item : item.k = "ptr")

\* PopularityCounter: how often each object is pointed at, doubles and their
\* class left out; popular ones first, the smaller of two first.
Count(heap, name) ==
  Sum([i \in DOMAIN heap |->
         Len(SelectSeq(heap[i].items,
                       LAMBDA item : item.k = "ptr" /\ item.v = name))])

Popularity(heap, name) ==
  (Count(heap, name) * writer.word * 2)
    \div ObjectSize(heap[IndexOf(heap, name)].items, writer)

MostPopular(heap) ==
  LET S == {heap[i].name : i \in {j \in DOMAIN heap :
              /\ ~IsDouble(heap[j].items) /\ heap[j].name # "double class"
              /\ Count(heap, heap[j].name) > 0}}
      seq == SelectSeq([i \in DOMAIN heap |-> heap[i].name],
                       LAMBDA o : o \in S)
  IN SortSeq(seq, LAMBDA a, b : Popularity(heap, a) > Popularity(heap, b))

Named(heap, o) == heap[IndexOf(heap, o)]

\* Append to `to` the objects of `names` it does not hold yet.
Copied(to, names) ==
  FoldLeft(LAMBDA t, o : IF o \in ToSet(t) THEN t ELSE Append(t, o), to, names)

\* CompleteScavenge: the pointers of the objects copied so far, in order.
RECURSIVE Scavenged(_, _, _)
Scavenged(heap, to, i) ==
  IF i > Len(to) THEN to
  ELSE Scavenged(heap,
                 Copied(to, [j \in DOMAIN Pointers(Named(heap, to[i]).items) |->
                               Pointers(Named(heap, to[i]).items)[j].v]),
                 i + 1)

SnapshotOrder(heap, most) ==
  LET doubles == SelectSeq([i \in DOMAIN heap |-> heap[i].name],
                           LAMBDA o : IsDouble(Named(heap, o).items))
      first == Copied(Copied(doubles, <<"double class", "null">>),
                      SubSeq(most, 1, IF Len(most) < Popular THEN Len(most)
                                                             ELSE Popular))
  IN Scavenged(heap, Copied(first, Roots(heap)), 1)

SnapshotGC(heap, most) ==
  LET order == SnapshotOrder(heap, most)
  IN [i \in DOMAIN order |-> Named(heap, order[i])]

PopularityIndex(most, name) ==
  LET S == {i \in 1..PopularCoded : i <= Len(most) /\ most[i] = name}
  IN IF S = {} THEN -1 ELSE (CHOOSE i \in S : TRUE) - 1

---------------------------------------------------------------------------
(* Instructions. *)

RecentPointer == 2
RecentSmi == 4
SmiOp == 5
External == 6
RawOp == 7
Bias == -1

\* The bytes after the first one that an offset takes.
Width(offset) ==
  LET fits == {w \in 0..3 : /\ offset >= Bias * 2^(ByteBits * w)
                            /\ offset < (2^(4 - w) + Bias) * 2^(ByteBits * w)}
  IN IF fits = {} THEN 4 ELSE CHOOSE w \in fits : \A u \in fits : w <= u

OpcodeLength(offset) == Width(offset) + 1

WriteOpcode(opcode, offset) ==
  LET w == Width(offset)
      x == offset - Bias * 2^(ByteBits * w)
      digit(i) == (x \div 2^(ByteBits * i)) % 2^ByteBits
  IN <<opcode * 32 + (32 - 2^(5 - w)) + x \div 2^(ByteBits * w)>>
       \o [i \in 1..w |-> digit(w - i)]

SectionBoundary == WriteOpcode(RawOp, -1)
IsSectionBoundary(b) == b = RawOp * 32

OpCode(b) == b \div 32
IsPopular(b) == b < 64

ArgumentBytes(b) ==
  LET low == b % 32
  IN CASE low < 16 -> 0 [] low \in 16..23 -> 1 [] low \in 24..27 -> 2
       [] low \in 28..29 -> 3 [] OTHER -> 4

ArgumentStart(b, w) == Bias + (IF w = 4 THEN b % 2 ELSE b % 2^(4 - w))

\* The argument of the instruction at p.
Argument(p) ==
  LET w == ArgumentBytes(bytes[p])
      start == ArgumentStart(bytes[p], w)
  IN FoldLeft(LAMBDA x, b : x * 2^ByteBits + b, start,
              SubSeq(bytes, p + 1, p + w))

After(p) == p + 1 + ArgumentBytes(bytes[p])

---------------------------------------------------------------------------
(* SnapshotOracle. *)

States == 0..(2^kStatesLog2 - 1)
NewOracle == [costs |-> [i \in States |-> 0],
              regs |-> [r \in {0, 1} |-> [i \in States |-> 0]],
              unused |-> kStatesLog2, script |-> <<>>]

\* An int: 32 bits in the code.
Wrap(n) == LET m == 2^(4 * ByteBits)
           IN ((n + m \div 2) % m) - m \div 2

Cost(diff, smi) == OpcodeLength(IF smi THEN diff ELSE diff \div 4)

SimulateInput(o, addr, smi) ==
  LET total(i, r) == o.costs[i] + Cost(Wrap(addr - o.regs[r][i]), smi)
      best == CHOOSE c \in {total(i, r) : i \in States, r \in {0, 1}} :
                \A i \in States, r \in {0, 1} : c <= total(i, r)
      oldest == CHOOSE i \in States :
                  /\ \E r \in {0, 1} : total(i, r) = best
                  /\ \A j \in 0..(i - 1), r \in {0, 1} : total(j, r) # best
      half == 2^(kStatesLog2 - 1)
      decision == oldest \div half
      from(i) == decision * half + i \div 2
  IN [costs |-> [i \in States |->
        o.costs[from(i)] + Cost(Wrap(addr - o.regs[i % 2][from(i)]), smi)],
      regs |-> [r \in {0, 1} |-> [i \in States |->
        IF i % 2 = r /\ (~smi \/ r = 1) THEN addr ELSE o.regs[r][from(i)]]],
      unused |-> IF o.unused = 0 THEN 0 ELSE o.unused - 1,
      script |-> IF o.unused = 0 THEN Append(o.script, decision)
                                 ELSE o.script]

Force(F(_), e) == CHOOSE y \in {F(x) : x \in {e}} : TRUE

Simulated(inputs, smi) ==
  LET f[i \in 0..Len(inputs)] ==
        IF i = 0 THEN NewOracle
        ELSE Force(LAMBDA o : SimulateInput(o, inputs[i], smi), f[i - 1])
  IN f[Len(inputs)]

\* WrapUp: bogus inputs, so that every real one is decided.
Script(inputs, smi) ==
  LET n == IF Len(inputs) < kStatesLog2 THEN Len(inputs) ELSE kStatesLog2
  IN Simulated(inputs \o [i \in 1..n |-> 0], smi).script

---------------------------------------------------------------------------
(* What is written: the items of the popular list, of the roots and of the *)
(* objects.  In the popular list no object is coded as popular.            *)

PopularItems ==
  [i \in 1..Popular |-> IF i <= Len(popular) THEN Ptr(popular[i]) ELSE Num(0)]

RootItems == LET r == Roots(objects) IN [i \in DOMAIN r |-> Ptr(r[i])]

AllItems(heap) == FlattenSeq([i \in DOMAIN heap |-> heap[i].items])

\* Addresses the pointer oracle is shown, in order; the class of a double is
\* among them though it is not written.
PointerInputs ==
  LET coded(item) == item.k = "ptr" /\ PopularityIndex(popular, item.v) = -1
      list == SelectSeq(PopularItems, LAMBDA item : item.k = "ptr")
      rest == SelectSeq(RootItems \o AllItems(objects), coded)
      seq == list \o rest
  IN [i \in DOMAIN seq |-> AddressAt(objects, IndexOf(objects, seq[i].v), Ideal)]

IntegerInputs ==
  LET seq == SelectSeq(PopularItems \o AllItems(objects),
                       LAMBDA item : item.k = "int")
  IN [i \in DOMAIN seq |-> seq[i].v]

\* The offset of the LoadConst at i from words of one size to words of another.
\* A slip: the literals are taken to follow the byte codes at once.
NewOffsetUnaligned(code, i, old, new) ==
  LET pointers == ((i - 1 + code[i + 1]) - Len(code)) \div old
  IN Len(code) + pointers * new - (i - 1)
NewOffset(code, i, old, new) ==
  LET pointers == ((i - 1 + code[i + 1]) - RoundUp(Len(code), old)) \div old
  IN RoundUp(Len(code), new) + pointers * new - (i - 1)

RECURSIVE FixByteCodes(_, _, _, _)
FixByteCodes(code, i, old, new) ==
  IF i > Len(code) \/ code[i] = MethodEnd THEN code
  ELSE IF code[i] = Pop THEN FixByteCodes(code, i + 1, old, new)
  ELSE FixByteCodes([code EXCEPT ![i + 1] = NewOffset(code, i, old, new)], i + 5, old, new)

---------------------------------------------------------------------------
(* ObjectWriter.  w: the bytes so far, the registers, the position in each *)
(* script.                                                                 *)

NewWriter == [out |-> <<>>, recent |-> [r \in {0, 1} |-> 0], smi |-> 0,
              pointers |-> 0, integers |-> 0]

Emit(w, s) == [w EXCEPT !.out = @ \o s]

\* Consult: past the end of its script the oracle has nothing to say.
Pronounced(script, n) == IF n \in DOMAIN script THEN script[n] ELSE 0

WriteInteger(w, n) ==
  LET next == w.integers + 1
  IN IF Pronounced(oracle.integers, next) = 0
     THEN [Emit(w, WriteOpcode(SmiOp, n)) EXCEPT !.integers = next]
     ELSE [Emit(w, WriteOpcode(RecentSmi, Wrap(n - w.smi)))
             EXCEPT !.integers = next, !.smi = n]

WritePointer(w, name, listing) ==
  LET index == IF listing THEN -1 ELSE PopularityIndex(popular, name)
      next == w.pointers + 1
      reg == Pronounced(oracle.pointers, next)
      ideal == IdealizedAddress(objects, name)
  IN IF index # -1 THEN Emit(w, <<index>>)
     ELSE [Emit(w, WriteOpcode(RecentPointer + reg,
                               (ideal - w.recent[reg]) \div Ideal.word))
             EXCEPT !.pointers = next, !.recent[reg] = ideal]

WriteItem(w, item, listing) ==
  CASE item.k = "ptr" -> WritePointer(w, item.v, listing)
    [] item.k = "int" -> WriteInteger(w, item.v)
    [] item.k = "code" -> Emit(w, WriteOpcode(External, item.v))
    [] item.k = "raw" -> Emit(w, WriteOpcode(RawOp, Len(item.v)) \o item.v)
    [] item.k = "bytecodes" ->
         Emit(w, WriteOpcode(RawOp, Len(item.v))
                   \o (IF writer.word = 8
                       THEN FixByteCodes(item.v, 1, 8, 4) ELSE item.v))
    [] item.k = "float" -> Emit(w, <<item.v>>)

WriteItems(w, items, listing) ==
  LET f[i \in 0..Len(items)] ==
        IF i = 0 THEN w
        ELSE Force(LAMBDA v : WriteItem(v, items[i], listing), f[i - 1])
  IN f[Len(items)]

\* SnapshotWriterVisitor: of a double only the value is written, and the
\* oracle is asked once for its class.
WriteObject(w, items) ==
  IF IsDouble(items)
  THEN [Emit(w, <<items[2].v>>) EXCEPT !.pointers = @ + 1]
  ELSE WriteItems(w, items, FALSE)

WriteObjects(w) ==
  LET f[i \in 0..Len(objects)] ==
        IF i = 0 THEN w
        ELSE Force(LAMBDA v : WriteObject(v, objects[i].items), f[i - 1])
  IN f[Len(objects)]

Magic == <<190, 239>>
Version == <<"version">>
LayoutOrder == <<[word |-> 8, float |-> 4], [word |-> 8, float |-> 8],
                 [word |-> 4, float |-> 4], [word |-> 4, float |-> 8]>>

Header == Magic \o Version \o <<TotalFloats(objects)>>
            \o [i \in 1..4 |-> HeapSize(objects, LayoutOrder[i])]

Written ==
  LET boundary(w) == Emit(w, SectionBoundary)
      w1 == WriteItems(boundary([NewWriter EXCEPT !.out = Header]),
                       PopularItems, TRUE)
      w2 == WriteItems(boundary(w1), RootItems, FALSE)
      w3 == WriteObjects(boundary(w2))
  IN boundary(w3)

---------------------------------------------------------------------------
(* SnapshotReader.  r: position, registers, raw bytes to do, words read,   *)
(* the table of popular objects.                                           *)

Base == DoublesSize(objects, reader)

\* BuildLocationMap (64 bit): from addresses of the snapshot to those of the
\* reader, by walking the instructions of the heap section from position p.
LocationMap(p0, floats, size) ==
  LET RECURSIVE Walk(_, _, _, _)
      Walk(p, real, ideal, map) ==
        IF real >= size THEN map
        ELSE IF IsSectionBoundary(bytes[p]) THEN Walk(p + 1, real, ideal, map)
        ELSE IF IsPopular(bytes[p])
        THEN Walk(p + 1, real + 8, ideal + 4, map \cup {<<ideal, real>>})
        ELSE LET op == OpCode(bytes[p])
                 x == Argument(p)
             IN IF op = RawOp
                THEN Walk(After(p) + x, real + RoundUp(x, 8),
                          ideal + RoundUp(x, 4), map)
                ELSE Walk(After(p), real + 8, ideal + 4,
                          IF op \in {RecentPointer, RecentPointer + 1}
                          THEN map \cup {<<ideal, real>>} ELSE map)
  IN Walk(p0 + floats, Base, 0,
          {<<-(floats - i) * 8, i * (8 + reader.float)>> : i \in 0..(floats - 1)})

\* The address a distance stands for, in the reader's layout.
Actual(ideal, map) ==
  IF reader.word = 8
  THEN LET S == {m \in map : m[1] = ideal}
       IN IF S = {} THEN -1 ELSE (CHOOSE m \in S : TRUE)[2]
  ELSE IF reader.float = 8 /\ ideal < 0
       THEN Base - ((-ideal) + (-ideal) \div 2)
       ELSE Base + ideal

\* One word of a register: 4 bytes wrap, 8 do not.
RegisterSum(a, b) == IF reader.word = 4 THEN Wrap(a + b) ELSE a + b

Minimum(a, b) == IF a < b THEN a ELSE b

ReadWord(r, map) ==
  LET p == r.pos
      take(q, left) ==
        LET n == Minimum(left, reader.word)
        IN [r EXCEPT !.pos = q + n, !.raw = left - n,
                     !.words = Append(@, Raw(SubSeq(bytes, q, q + n - 1)))]
      is(q, word) == [r EXCEPT !.pos = q, !.words = Append(@, word)]
  IN IF r.raw > 0 THEN take(p, r.raw)
     ELSE IF IsPopular(bytes[p]) THEN is(p + 1, r.popular[bytes[p] + 1])
     ELSE LET op == OpCode(bytes[p])
              x == Argument(p)
          IN CASE op \in {RecentPointer, RecentPointer + 1} ->
                    LET ideal == r.recents[op - RecentPointer] + 4 * x
                    IN [is(After(p), Ptr(Actual(ideal, map)))
                          EXCEPT !.recents[op - RecentPointer] = ideal]
               [] op = RecentSmi ->
                    LET n == RegisterSum(r.recents[2], x)
                    IN [is(After(p), Num(n)) EXCEPT !.recents[2] = n]
               [] op = SmiOp -> is(After(p), Num(x))
               [] op = External -> is(After(p), Code(x))
               [] op = RawOp -> take(After(p), x)

ReadWords(r, n, map) ==
  LET f[i \in 0..n] ==
        IF i = 0 THEN r ELSE Force(LAMBDA v : ReadWord(v, map), f[i - 1])
  IN f[n]

\* Skip (64 bit): past a boundary and n words.
Skip(p, n) ==
  LET f[i \in 0..n] == IF i = 0 THEN p + 1 ELSE
        Force(LAMBDA q : IF IsPopular(bytes[q]) THEN q + 1 ELSE After(q),
              f[i - 1])
  IN f[n]

ReaderIndex == CHOOSE i \in 1..4 : LayoutOrder[i] = reader

ReadProgram ==
  LET start  == Len(Magic) + Len(Version) + 1
      floats == bytes[start]
      size   == bytes[start + ReaderIndex]
      p      == start + 5
      roots  == Len(Roots(objects))
      r0 == [pos |-> p + 1, raw |-> 0, words |-> <<>>, popular |-> <<>>,
             recents |-> [i \in 0..2 |-> 0]]
      readRoots(r, map) ==
        ReadWords([r EXCEPT !.popular = r.words, !.words = <<>>, !.pos = @ + 1],
                  roots, map)
      readHeap(r, map) ==
        ReadWords([r EXCEPT !.words = <<>>, !.pos = @ + 1 + floats],
                  (size - DoublesSize(objects, reader)) \div reader.word, map)
      result(r2, r3) ==
        [roots |-> r2.words,
         doubles |-> SubSeq(bytes, r2.pos + 1, r2.pos + floats),
         words |-> r3.words, end |-> r3.pos]
      after(r2, map) == result(r2, readHeap(r2, map))
      read(map) == after(readRoots(ReadWords(r0, Popular, map), map), map)
  IN read(IF reader.word = 4 THEN {}
          ELSE LocationMap(Skip(Skip(p, Popular), roots) + 1, floats, size))
---------------------------------------------------------------------------
(* The words a machine with the reader's layout holds for the program.     *)

Image(item) ==
  CASE item.k = "ptr" ->
         <<Ptr(AddressAt(objects, IndexOf(objects, item.v), reader))>>
    [] item.k \in {"raw", "bytecodes"} ->
         [i \in 1..(RoundUp(Len(item.v), reader.word) \div reader.word) |->
            Raw(SubSeq(item.v, (i - 1) * reader.word + 1,
                       Minimum(i * reader.word, Len(item.v))))]
    [] OTHER -> <<item>>

\* The program as the reading machine would have built it itself.
Native(items) ==
  [i \in DOMAIN items |->
     IF items[i].k = "bytecodes"
     THEN Codes(LoadConsts(Len(items[i].v), Len(items[i].v) - 11, reader.word))
     ELSE items[i]]

Expected ==
  LET heap == SelectSeq(objects, LAMBDA o : ~IsDouble(o.items))
      items == FlattenSeq([i \in DOMAIN heap |-> Native(heap[i].items)])
  IN FlattenSeq([i \in DOMAIN items |-> Image(items[i])])

\* ByteCodeFixingObjectVisitor (64 bit): the byte codes of the function, in
\* place in the words read.
FunctionWord ==
  (AddressAt(objects, IndexOf(objects, "function"), reader) - Base)
    \div reader.word + 5

FixedWords ==
  LET n == Len(Named(objects, "function").items[5].v)
      k == RoundUp(n, 8) \div 8
      code == FlattenSeq([i \in 1..k |-> memory.words[FunctionWord + i - 1].v])
      fixed == FixByteCodes(code, 1, 4, 8)
  IN [i \in DOMAIN memory.words |->
        IF i \in FunctionWord..(FunctionWord + k - 1)
        THEN LET j == i - FunctionWord
             IN Raw(SubSeq(fixed, j * 8 + 1, Minimum((j + 1) * 8, n)))
        ELSE memory.words[i]]

---------------------------------------------------------------------------
NoOracle == [pointers |-> <<>>, integers |-> <<>>]
NoMemory == [roots |-> <<>>, doubles |-> <<>>, words |-> <<>>, end |-> 0]

SnapInit ==
  /\ stage = "program"
  /\ writer = Ideal /\ reader = Ideal
  /\ objects = <<>> /\ popular = <<>> /\ oracle = NoOracle
  /\ bytes = <<>> /\ memory = NoMemory
  /\ failed = {}

\* A program on a machine of some layout, folded and ready to be written.
MakeProgram ==
  /\ stage = "program"
  /\ \E layout \in Layouts, doubles \in 0..MaxDoubles, n \in 0..MaxBytes,
        pops \in 0..2, k \in 0..MaxElements :
     \E elements \in [1..k -> Elements] :
       /\ doubles = 0 => \A i \in 1..k : elements[i] # Ptr("double 1")
       /\ writer' = layout
       /\ objects' = ProgramHeap(elements, n, pops, doubles, layout.word)
  /\ stage' = "gc"
  /\ UNCHANGED <<reader, popular, oracle, bytes, memory, failed>>

CollectForSnapshot ==
  /\ stage = "gc"
  /\ popular' = MostPopular(objects)
  /\ objects' = SnapshotGC(objects, popular')
  /\ stage' = "consult"
  /\ UNCHANGED <<writer, reader, oracle, bytes, memory, failed>>

AskOracles ==
  /\ stage = "consult"
  /\ oracle' = [oracle EXCEPT !.pointers = Script(PointerInputs, FALSE),
                              !.integers = Script(IntegerInputs, TRUE)]
  /\ stage' = "write"
  /\ UNCHANGED <<writer, reader, objects, popular, bytes, memory, failed>>

\* DoneConsulting: each oracle was asked as often as it was shown an input.
WriteProgram ==
  /\ stage = "write"
  /\ LET w == Written
     IN /\ bytes' = w.out
        /\ failed' = IF /\ w.pointers = Len(oracle.pointers)
                        /\ w.integers = Len(oracle.integers)
                     THEN failed ELSE failed \cup {"DoneConsulting"}
  /\ stage' = "read"
  /\ UNCHANGED <<writer, reader, objects, popular, oracle, memory>>

Read ==
  /\ stage = "read"
  /\ \E layout \in Layouts : reader' = layout
  /\ stage' = "load"
  /\ UNCHANGED <<writer, objects, popular, oracle, bytes, memory, failed>>

Load ==
  /\ stage = "load"
  /\ memory' = ReadProgram
  /\ failed' = IF IsSectionBoundary(bytes[memory'.end]) THEN failed
               ELSE failed \cup {"ReadSectionBoundary"}
  /\ stage' = IF reader.word = 8 THEN "fix" ELSE "done"
  /\ UNCHANGED <<writer, reader, objects, popular, oracle, bytes>>

FixByteCodesInPlace ==
  /\ stage = "fix"
  /\ memory' = [memory EXCEPT !.words = FixedWords]
  /\ stage' = "done"
  /\ UNCHANGED <<writer, reader, objects, popular, oracle, bytes, failed>>

SnapNext == MakeProgram \/ CollectForSnapshot \/ AskOracles \/ WriteProgram
              \/ Read \/ Load \/ FixByteCodesInPlace

---------------------------------------------------------------------------
(* Properties. *)

\* Whatever machine wrote the snapshot, the machine that reads it ends up
\* with the words it would hold had it built the program itself: every
\* pointer, integer, code address, byte and byte code offset, the roots and
\* the doubles.  No assertion on the way fails.
SnapshotKeepsProgram ==
  /\ failed = {}
  /\ stage = "done" =>
       /\ memory.words = Expected
       /\ memory.roots = FlattenSeq([i \in DOMAIN RootItems |->
                                       Image(RootItems[i])])
       /\ memory.doubles = [i \in 1..TotalFloats(objects) |->
                              objects[i].items[2].v]
=============================================================================
