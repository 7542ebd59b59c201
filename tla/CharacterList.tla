--------------------------- MODULE CharacterList ---------------------------
(***************************************************************************)
(* The GameNetCharacter list of nvmp_storyserver.exe, as the scan thread   *)
(* of nvmp_server_hook.dll reads it (nvmp_server_hook/src/main.cpp,        *)
(* 176-213): a circular list headed by a sentinel inside the manager,      *)
(* whose nodes carry the netref of one player character each.              *)
(*                                                                         *)
(* The list belongs to the server, which is not part of this repository.   *)
(* The hook takes no lock on it: every action below may happen between any *)
(* two reads of the scan thread.                                           *)
(*                                                                         *)
(* A member of Players is an ADDRESS: of a list node together with the     *)
(* netref it carries.  An address that is freed and linked again stands    *)
(* for memory the server's allocator used a second time, possibly for      *)
(* another person.                                                         *)
(***************************************************************************)
EXTENDS Naturals, FiniteSets

CONSTANTS
  Players,    \* addresses of nodes / player netrefs
  Sentinel,   \* manager + 0x54
  Null,       \* any address that is not above 0x10000
  NameKinds,  \* the sets of markers a name can contain in this instance
  MaxEvents   \* bound: how many renames and disconnections the server performs

Markers == {"SP", "HB"}

ASSUME AddressesAssumption ==
  /\ Sentinel \notin Players
  /\ Null \notin Players \cup {Sentinel}

ASSUME NamesAssumption ==
  /\ NameKinds \subseteq SUBSET Markers
  /\ MaxEvents \in Nat

VARIABLES
  next,    \* the `next` word of every node and of the sentinel
  linked,  \* the nodes that are on the list; the others are free memory
  tags,    \* the markers in the name of the netref at an address
  events   \* renames and disconnections so far

listVars == <<next, linked, tags, events>>

Heads == linked \cup {Sentinel}

ListTypeOK ==
  /\ next \in [Players \cup {Sentinel} -> Players \cup {Sentinel}]
  /\ linked \subseteq Players
  /\ tags \in [Players -> SUBSET Markers]
  /\ events \in Nat

ListInit ==
  /\ next = [a \in Players \cup {Sentinel} |-> Sentinel]
  /\ linked = {}
  /\ tags = [p \in Players |-> {}]
  /\ events = 0

----------------------------------------------------------------------------
(* A client joins: its character is inserted somewhere on the list. *)
Connect(p, before, kind) ==
  /\ p \notin linked
  /\ before \in Heads
  /\ next' = [next EXCEPT ![p] = next[before], ![before] = p]
  /\ linked' = linked \cup {p}
  /\ tags' = [tags EXCEPT ![p] = kind]
  /\ UNCHANGED events

(* A client leaves: its node is unlinked and freed.  The freed words keep  *)
(* their contents until the address is linked again.                       *)
Disconnect(p, before) ==
  /\ events < MaxEvents
  /\ p \in linked
  /\ before \in Heads
  /\ next[before] = p
  /\ next' = [next EXCEPT ![before] = next[p]]
  /\ linked' = linked \ {p}
  /\ events' = events + 1
  /\ UNCHANGED tags

(* A name replicated from a client replaces the old one. *)
Rename(p, kind) ==
  /\ events < MaxEvents
  /\ p \in linked
  /\ tags[p] # kind
  /\ tags' = [tags EXCEPT ![p] = kind]
  /\ events' = events + 1
  /\ UNCHANGED <<next, linked>>

ServerStep ==
  \/ \E p \in Players, before \in Players \cup {Sentinel}, kind \in NameKinds :
       Connect(p, before, kind)
  \/ \E p \in Players, before \in Players \cup {Sentinel} : Disconnect(p, before)
  \/ \E p \in Players, kind \in NameKinds : Rename(p, kind)

=============================================================================
