---------------------------- MODULE PackingTree ----------------------------
(***************************************************************************)
(* The packing tree of an input, and the answer of resolve() that it       *)
(* determines, with neither a recursion of calls nor a running budget.     *)
(*                                                                         *)
(* The tree, read in document order, is a flat list of events: so many     *)
(* bytes inflated, a member seen, a node found, a layer that does not      *)
(* decode, a layer too deep.  The answer is decided by the first event     *)
(* that breaks a limit or is an error, and if there is none it is the list *)
(* of all the nodes.                                                       *)
(*                                                                         *)
(* Recursion is written as functions over numbers: the levels of calls     *)
(* still allowed, the members of an archive still to come, the events      *)
(* counted.                                                                *)
(***************************************************************************)
EXTENDS Content, Budget

Inflated(n) == [kind |-> "inflate", bytes |-> n]
Seen        == [kind |-> "member"]
Found(node) == [kind |-> "node", node |-> node]
Bad(e)      == [kind |-> "error", error |-> e]

\* The events of one member of an archive; below[b][name] are those of what is in it.
MemberEvents(w, fmt, m, below) ==
  LET r == IF fmt = "SevenZip" /\ m.size > MaxInflated THEN "TooLarge" ELSE ReadBody(w, m.data)
  IN <<Seen>> \o IF m.isDir
                 THEN <<Found([dir |-> TRUE, name |-> m.name, data |-> NoBlob])>>
                 ELSE IF r \notin Blob THEN <<Bad(r)>>
                 ELSE <<Inflated(w[r].size)>> \o below[r][m.name]

\* As a function of how many: the events of the last members of a list.
LastMembers(w, fmt, ms, below) ==
  LET last[k \in 0 .. Len(ms)] ==
        IF k = 0 THEN <<>>
        ELSE MemberEvents(w, fmt, ms[Len(ms) + 1 - k], below) \o last[k - 1]
  IN last

\* The events of one layer and what is below it.
LayerEvents(w, b, name, below) ==
  LET fmt == SniffBlob(w, b, name)
      ms == Entries(w, b, fmt)
  IN IF IsCompressionWrapper(fmt)
     THEN LET r == PeelBytes(w, b, fmt) IN
          IF r \notin Blob THEN <<Bad(r)>>
          ELSE <<Inflated(w[r].size)>> \o below[r][StripCompressionExt(name)]
     ELSE IF IsArchive(fmt)
     THEN IF Opens(w, b, fmt) THEN LastMembers(w, fmt, ms, below)[Len(ms)] ELSE <<Bad("Open")>>
     ELSE <<Found([dir |-> FALSE, name |-> IF name = NoName THEN <<EmptyPiece>> ELSE name,
                   data |-> b])>>

\* As a function of how many levels may be looked at: the events under every byte
\* string and name.
Events(w) ==
  LET under[levels \in Nat] ==
        [b \in Blob |-> [name \in Name |->
           IF levels = 0 THEN <<Bad("DepthExceeded")>>
           ELSE LayerEvents(w, b, name, under[levels - 1])]]
  IN under

\* max_depth levels are allowed below the caller's own bytes.
EventsOf(i) == Events(i.world)[i.limits.max_depth + 1][i.root][i.name]

\* The sums t with one more event.
Counted(t, e) ==
  [bytes   |-> IF e.kind = "inflate" THEN t.bytes + e.bytes ELSE t.bytes,
   members |-> IF e.kind = "member" THEN t.members + 1 ELSE t.members,
   nodes   |-> IF e.kind = "node" THEN Append(t.nodes, e.node) ELSE t.nodes]

\* As a function of how many: what the first events of a list add up to.
Tally(evs) ==
  LET after[k \in 0 .. Len(evs)] ==
        IF k = 0 THEN [bytes |-> 0, members |-> 0, nodes |-> <<>>]
        ELSE Counted(after[k - 1], evs[k])
  IN after

\* A sum counts against its limit unless it has saturated at MaxU64.
Exceeds(sum, max) == sum > max /\ max < MaxU64

\* The k-th event is an error, or the first k break a limit.
Breaks(evs, lim, k) ==
  \/ evs[k].kind = "error"
  \/ Exceeds(Tally(evs)[k].members, lim.max_entries)
  \/ Exceeds(Tally(evs)[k].bytes, lim.max_total_inflated)

\* What resolve() says when the k-th event is the first that breaks.
ErrorAt(evs, k) ==
  CASE evs[k].kind = "error" -> evs[k].error
    [] evs[k].kind = "member" -> "TooManyEntries"
    [] OTHER -> "TotalInflatedExceeded"

Decide(evs, lim) ==
  LET broken == {k \in DOMAIN evs : Breaks(evs, lim, k)} IN
  IF broken = {} THEN [nodes |-> Tally(evs)[Len(evs)].nodes]
  ELSE [error |-> ErrorAt(evs, CHOOSE k \in broken : \A j \in broken : k <= j)]

Answer(i) == Decide(EventsOf(i), i.limits)
=============================================================================
