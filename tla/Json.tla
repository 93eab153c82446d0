-------------------------------- MODULE Json --------------------------------
(***************************************************************************)
(* JSON trees (src/src/stdlib/json.rs): a document becomes one block of    *)
(* the heap, its nodes first, each the children of an object or array      *)
(* together, then their names.  The first pass measures, the second, which *)
(* walks the document again, writes.                                       *)
(*                                                                         *)
(* A cell of the heap holds a word, or a byte of a name; a number is an    *)
(* int in the first of its two words.  A document is what serde_json finds *)
(* in the text: a tree, with INVALID where the text stops being JSON.      *)
(***************************************************************************)
EXTENDS Convert

CONSTANTS
    HeapBase,          \* the address of the heap
    HeapMax,           \* limits.heap_bytes
    HeapAlign,         \* what blocks are rounded up to
    JsonDepth          \* how deep serde_json lets a document nest

ASSUME JsonAssumption ==
    /\ HeapBase \in Nat \ {0} /\ HeapMax \in Nat /\ HeapAlign \in Nat \ {0} /\ HeapMax % HeapAlign = 0
    /\ JsonDepth \in Nat

STRING_NODE == 0
NUMBER_NODE == 1
OBJECT_NODE == 2
ARRAY_NODE == 3
TRUE_NODE == 4
FALSE_NODE == 5
NULL_NODE == 6
INVALID == 7

Node == 4                            \* the words of a node
TempBase == HeapBase + HeapMax       \* the references of temp strings are no addresses

NewHeap == [len |-> 0, data |-> << >>, used |-> << >>, free |-> << >>]
HeapOf == INSTANCE Heap WITH heap <- NewHeap, Align <- HeapAlign, MaxHeap <- HeapMax,
                             MaxAlloc <- HeapMax, Val <- {0}, Requests <- {}

IsContainer(ty) == ty \in {OBJECT_NODE, ARRAY_NODE}

\* qc_text: a NUL, which would end a string, is stored overlong.
QcByte(c) == IF c = NUL THEN <<192, 128>> ELSE <<c>>
qc_text(text) == Exchanged(text, QcByte)

\* What a child is named: its key, or its index.
NameOf(doc, i) == IF doc.ty = ARRAY_NODE THEN itos(i - 1) ELSE qc_text(doc.kids[i].key)

\* A mutant: the end of a name takes no room.
NameBytesBare(len) == len
NameBytes(len) == IF len = 0 THEN 0 ELSE len + 1

----------------------------------------------------------------------------
(* Pass 1: counts the nodes, the bytes of names and, in the order the      *)
(* objects and arrays open, their children.                                *)

Size(m) == m.nodes * Node + m.names

\* A node and its name.
Counted(m, name) == [m EXCEPT !.nodes = @ + 1, !.names = @ + NameBytes(name)]

\* The end of the object or array that opened as number slot.
Closed(m, slot, n) == IF m.stop = "no" THEN [m EXCEPT !.counts[slot] = n] ELSE m

RECURSIVE MeasureNode(_, _, _, _), MeasureRest(_, _, _), MeasureKids(_, _, _, _)
MeasureNode(m, doc, name, depth) == MeasureRest(Counted(m, name), doc, depth)
MeasureRest(m, doc, depth) ==
    CASE Size(m) > HeapMax -> [m EXCEPT !.stop = "too large"]
      [] Size(m) <= HeapMax /\ (doc.ty = INVALID \/ (IsContainer(doc.ty) /\ depth = 0)) ->
            [m EXCEPT !.stop = "invalid"]
      [] Size(m) <= HeapMax /\ IsContainer(doc.ty) /\ depth > 0 ->
            Closed(MeasureKids([m EXCEPT !.counts = Append(@, 0)], doc, 1, depth - 1),
                   Len(m.counts) + 1, Len(doc.kids))
      [] OTHER -> m
MeasureKids(m, doc, i, depth) ==
    IF m.stop # "no" \/ i > Len(doc.kids) THEN m
    ELSE MeasureKids(MeasureNode(m, doc.kids[i].node, Len(NameOf(doc, i)), depth), doc, i + 1, depth)

\* measure: the document and that nothing follows it.
Whole(m, trailing) == IF m.stop = "no" /\ trailing THEN [m EXCEPT !.stop = "invalid"] ELSE m
Measure(document) ==
    Whole(MeasureNode([nodes |-> 0, names |-> 0, counts |-> << >>, stop |-> "no"], document.root, 0, JsonDepth),
          document.trailing)

----------------------------------------------------------------------------
(* Pass 2: w is the Writer, with the temp strings made and how many may be.*)

Address(w, offset) == w.base + offset

\* put: beyond the block nothing is written.
Put(w, at, cells) ==
    IF at + Len(cells) > Len(w.out) THEN w
    ELSE [w EXCEPT !.out = [i \in DOMAIN @ |-> IF i \in at + 1 .. at + Len(cells) THEN cells[i - at] ELSE @[i]]]

PutNode(w, slot, ty, name, a, b) == Put(w, slot * Node, <<ty, name, a, b>>)

\* name: where it is stored, null for an empty one.
PutName(w, text) ==
    IF text = << >> THEN [w |-> w, at |-> 0]
    ELSE [w |-> [Put(w, w.next_name, text) EXCEPT !.next_name = @ + Len(text) + 1],
          at |-> Address(w, w.next_name)]

\* The n children get the next nodes.
Opened(w, n) ==
    [w EXCEPT !.next_node = @ + n, !.counts = IF @ = << >> THEN @ ELSE Tail(@)]

RECURSIVE WriteNode(_, _, _, _), WriteContainer(_, _, _, _, _), WriteKids(_, _, _, _, _), WriteKid(_, _, _, _)
WriteNode(w, doc, slot, name) ==
    CASE doc.ty = STRING_NODE ->
            IF Len(w.temps) >= w.room THEN [w EXCEPT !.failed = TRUE]
            ELSE PutNode([w EXCEPT !.temps = Append(@, qc_text(doc.text))],
                         slot, STRING_NODE, name, TempBase + Len(w.temps) + 1, 0)
      [] doc.ty = NUMBER_NODE -> PutNode(w, slot, NUMBER_NODE, name, doc.num, 0)
      [] doc.ty = TRUE_NODE -> PutNode(w, slot, TRUE_NODE, name, 1, 0)
      [] doc.ty \in {FALSE_NODE, NULL_NODE} -> PutNode(w, slot, doc.ty, name, 0, 0)
      [] IsContainer(doc.ty) ->
            WriteContainer(w, doc, slot, name, IF w.counts = << >> THEN 0 ELSE Head(w.counts))
WriteContainer(w, doc, slot, name, n) ==
    WriteKids(PutNode(Opened(w, n), slot, doc.ty, name, Address(w, w.next_node * Node), n),
              doc, w.next_node, 0, n)
WriteKids(w, doc, first, k, n) ==
    IF w.failed \/ k = n THEN w
    ELSE WriteKids(WriteKid(PutName(w, NameOf(doc, k + 1)), doc, first, k), doc, first, k + 1, n)
WriteKid(named, doc, first, k) == WriteNode(named.w, doc.kids[k + 1].node, first + k, named.at)

NewWriter(m, at, room) ==
    [out |-> [i \in 1 .. Size(m) |-> 0], base |-> HeapBase + at,
     next_node |-> 1, next_name |-> m.nodes * Node,
     counts |-> m.counts, temps |-> << >>, room |-> room, failed |-> FALSE]

Parsed(heap, root, temps) == [heap |-> heap, root |-> root, temps |-> temps]

\* What was written goes to the block at an offset, or the block goes.
Finished(heap, at, w) ==
    IF w.failed THEN Parsed(HeapOf!Free(heap, at), 0, w.temps)
    ELSE Parsed([heap EXCEPT !.data = [i \in DOMAIN @ |-> IF i \in at .. at + Len(w.out) - 1 THEN w.out[i - at + 1] ELSE @[i]]],
                HeapBase + at, w.temps)

\* build
Build(heap, document, m, room, at) ==
    Finished(HeapOf!Alloc(heap, Size(m)), at, WriteNode(NewWriter(m, at, room), document.root, 0, 0))

ParseMeasured(heap, document, m, room) ==
    IF m.stop # "no" \/ ~HeapOf!CanAlloc(heap, Size(m)) THEN Parsed(heap, 0, << >>)
    ELSE Build(heap, document, m, room, HeapOf!Place(heap, Size(m)))

\* json_parse with room for so many temp strings: the heap, the root or null,
\* and the strings made, which outlive a failure.
json_parse(heap, document, room) == ParseMeasured(heap, document, Measure(document), room)

----------------------------------------------------------------------------
(* The builtins that read trees; memory is the heap and the temp strings.  *)

\* node_arg: null for a null or a bad pointer (outside developer mode the latter is an error).
ReadNode(memory, p) ==
    IF p - HeapBase >= 0 /\ p - HeapBase + Node <= memory.heap.len
    THEN LET Cell(k) == memory.heap.data[p - HeapBase + k]
         IN [ty |-> Cell(0), name |-> Cell(1), a |-> Cell(2), b |-> Cell(3)]
    ELSE [ty |-> NULL_NODE, name |-> 0, a |-> 0, b |-> 0]

\* str_bytes: a temp string, or the cells up to a zero.
StrBytes(memory, r) ==
    IF r = 0 THEN << >>
    ELSE IF r > TempBase THEN memory.temps[r - TempBase]
    ELSE LET end == Min({i \in r - HeapBase .. memory.heap.len - 1 : memory.heap.data[i] = 0} \cup {memory.heap.len})
         IN [i \in 1 .. end - (r - HeapBase) |-> memory.heap.data[r - HeapBase + i - 1]]

json_get_value_type(memory, p) == ReadNode(memory, p).ty
json_get_name(memory, p) == ReadNode(memory, p).name
json_get_length(memory, p) == LET n == ReadNode(memory, p) IN IF IsContainer(n.ty) THEN n.b ELSE 0
json_get_string(memory, p) == LET n == ReadNode(memory, p) IN IF n.ty = STRING_NODE THEN n.a ELSE 0

json_get_integer(memory, p) ==
    LET n == ReadNode(memory, p) IN
    CASE n.ty \in {NUMBER_NODE, TRUE_NODE, FALSE_NODE} -> n.a
      [] n.ty = STRING_NODE -> atoi(StrBytes(memory, n.a))
      [] OTHER -> 0

json_get_child_at_index(memory, p, index) ==
    LET n == ReadNode(memory, p) IN
    IF IsContainer(n.ty) /\ index \in 0 .. n.b - 1 THEN n.a + index * Node ELSE 0

json_find_object_child(memory, p, key) ==
    LET n == ReadNode(memory, p)
        hits == {k \in 0 .. json_get_length(memory, p) - 1 :
                    StrBytes(memory, ReadNode(memory, n.a + k * Node).name) = key}
    IN IF hits = {} THEN 0 ELSE n.a + Min(hits) * Node
=============================================================================
