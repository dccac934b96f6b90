--------------------------- MODULE EntryDelivery -----------------------------
(***************************************************************************)
(* What the stream and the archive promise of an entry, with no daemon in  *)
(* sight: it is queued, delivered to the group, and settled once and for   *)
(* all; a message archived with a final status stays so; and an entry      *)
(* settled behind the acknowledgement fence belongs to an archived         *)
(* message. CommsDispatch implements this, where one stream is never       *)
(* deleted, and SiteStreams, where streams are but nothing is archived.    *)
(***************************************************************************)
CONSTANTS
  Entries,    (* stream entries                                            *)
  Ids,        (* message ids                                               *)
  IdOf,       (* the message id of an entry                                *)
  Fenced,     (* ways of settling an entry that require an archived message *)
  Unfenced,   (* the other ways                                            *)
  Deletable   (* sets of entries that are deleted together                 *)

VARIABLES
  fate,       (* where an entry is, or how it was settled                  *)
  archived    (* messages archived with a final status                     *)

Init == fate = [e \in Entries |-> "absent"] /\ archived = {}

(* A set of entries moves from one place to another together.              *)
Move(S, from, to) ==
  /\ \A e \in S : fate[e] = from
  /\ fate' = [e \in Entries |-> IF e \in S THEN to ELSE fate[e]]
  /\ UNCHANGED archived

Queue(e)   == Move({e}, "absent", "queued")
Deliver(S) == Move(S, "queued", "pending")

Settle(S, why) ==
  /\ why \in Fenced => \A e \in S : IdOf[e] \in archived
  /\ Move(S, "pending", why)

(* Deleting a stream takes its entries wherever they are, and it may be    *)
(* written again from the start.                                           *)
Delete(S) ==
  /\ fate' = [e \in Entries |-> IF e \in S THEN "absent" ELSE fate[e]]
  /\ UNCHANGED archived

Archive(id) == archived' = archived \cup {id} /\ UNCHANGED fate

Next ==
  \/ \E e \in Entries : Queue(e)
  \/ \E S \in SUBSET Entries : Deliver(S)
  \/ \E S \in SUBSET Entries, why \in Fenced \cup Unfenced : Settle(S, why)
  \/ \E S \in Deletable : Delete(S)
  \/ \E id \in Ids : Archive(id)

Spec == Init /\ [][Next]_<<fate, archived>>

(* An entry settled behind the fence is archived.                          *)
FenceHolds == \A e \in Entries : fate[e] \in Fenced => IdOf[e] \in archived
=============================================================================
