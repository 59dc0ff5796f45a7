---------------------------- MODULE DowntimeList ----------------------------
(***************************************************************************)
(* The scheduled downtimes as they are asked for, deleted, kept over a     *)
(* restart and shown (common/downtime.c); module Downtime has how they     *)
(* start and end, so that the downtimes here are such as have not started. *)
(*                                                                         *)
(* d.downtimes is [list, next]: scheduled_downtime_list in its order, and  *)
(* next_downtime_id.  A downtime is [id, type, on, start, end, fixed,      *)
(* trigger, text, comment]: type "host" or "service", trigger the id of    *)
(* the downtime that starts it (triggered_by, 0 for none), text what its   *)
(* author said, comment the id of the comment that was made of it.         *)
(*                                                                         *)
(* Before them, the comments of hosts and services (common/comments.c).    *)
(* c is [list, next]: the comments there are, and next_comment_id.  A      *)
(* comment is [id, type, on, entry, persistent, expire]: type "host" or    *)
(* "service", entry one of "user", "acknowledgement", "flapping" and       *)
(* "downtime", expire 0 when it has no end.  Ids are kept apart per type   *)
(* only, which is why every search names the type.  The list is a set: its *)
(* order is that of the ids, and the hash chains find the same comments    *)
(* faster.  A comment that has an end stays: add_new_comment() alone plans *)
(* the event for check_for_expired_comment(), and no caller gives it an    *)
(* end.                                                                    *)
(***************************************************************************)
EXTENDS Integers, FiniteSets, FiniteSetsExt, Sequences, SequencesExt

CONSTANT HostOf      \* the host of each service

---------------------------------------------------------------------------------
(* Comments *)

find_comment(c, id, type) == {m \in c.list : m.id = id /\ m.type = type}

\* The first id from next on that no comment of that type has.
FreeId(c, type) ==
  CHOOSE n \in c.next .. c.next + Cardinality(c.list) :
    /\ find_comment(c, n, type) = {}
    /\ \A k \in c.next .. n - 1 : find_comment(c, k, type) # {}

add_comment(c, m) == [c EXCEPT !.list = @ \cup {m}]

NewComment(c, type, on, entry, persistent, expire) ==
  LET id == FreeId(c, type)
  IN [add_comment(c, [id |-> id, type |-> type, on |-> on, entry |-> entry,
                      persistent |-> persistent, expire |-> expire])
        EXCEPT !.next = id + 1]

delete_comment(c, type, id) == [c EXCEPT !.list = @ \ find_comment(c, id, type)]

delete_all_comments(c, type, on) ==
  [c EXCEPT !.list = {m \in @ : ~(m.type = type /\ m.on = on)}]

IsAcknowledgement(m) == m.entry = "acknowledgement" /\ ~m.persistent

delete_acknowledgement_comments(c, type, on) ==
  [c EXCEPT !.list = {m \in @ : ~(m.type = type /\ m.on = on /\ IsAcknowledgement(m))}]

\* After the retention file was read: the first number, when that file gave none.
initialize_comment_data(c) ==
  [c EXCEPT !.next = IF @ # 0 THEN @ ELSE 1 + Max({0} \cup {m.id : m \in c.list})]

---------------------------------------------------------------------------------
(* Downtimes *)

AnyType == {"host", "service"}

Listed(d) == Range(d.downtimes.list)

find_downtime(d, types, id) == {m \in Listed(d) : m.id = id /\ m.type \in types}

ObjectExists(d, m) == m.on \in DOMAIN d[m.type]

\* By start, or while a file is read (deferred) in front, to be sorted then; a triggered
\* downtime must come after the one that triggers it.
add_downtime(d, m, deferred) ==
  LET list == d.downtimes.list
      before == Cardinality({i \in DOMAIN list : list[i].start <= m.start})
  IN IF m.trigger # 0 /\ find_downtime(d, AnyType, m.trigger) = {} THEN d
     ELSE [d EXCEPT !.downtimes.list = InsertAt(@, IF deferred THEN 1 ELSE before + 1, m)]

\* The first id from next on that no downtime of that type has.
FreeDowntimeId(d, type) ==
  CHOOSE n \in d.downtimes.next .. d.downtimes.next + Len(d.downtimes.list) :
    /\ find_downtime(d, {type}, n) = {}
    /\ \A k \in d.downtimes.next .. n - 1 : find_downtime(d, {type}, k) # {}

\* The id is spent even when the downtime is refused.
add_new_downtime(d, m) ==
  LET id == FreeDowntimeId(d, m.type)
  IN [add_downtime(d, [m EXCEPT !.id = id], FALSE) EXCEPT !.downtimes.next = id + 1]

\* A downtime of an object that exists gets a comment (and an event: module Downtime).
register_downtime(d, type, id) ==
  LET its == {m \in find_downtime(d, {type}, id) : ObjectExists(d, m)}
      Noted(m) ==
        LET noted == NewComment(d.comments, m.type, m.on, "downtime", FALSE, 0)
        IN [d EXCEPT !.comments = noted,
                     !.downtimes.list = ReplaceAll(@, m, [m EXCEPT !.comment = noted.next - 1])]
  IN IF its = {} THEN d ELSE Noted(CHOOSE m \in its : TRUE)

schedule_downtime(d, m, now) ==
  LET e == add_new_downtime(d, m)
  IN IF m.start >= m.end \/ m.end <= now THEN d
     ELSE register_downtime(e, m.type, e.downtimes.next - 1)

delete_downtime(d, m) ==
  [d EXCEPT !.comments = delete_comment(@, m.type, m.comment),
            !.downtimes.list = SelectSeq(@, LAMBDA x : x # m)]

\* The downtimes with these ids, those that they trigger, and so on.
Family(d, ids) ==
  LET F[S \in SUBSET {m.id : m \in Listed(d)}] ==
        LET T == S \cup {m.id : m \in {x \in Listed(d) : x.trigger \in S}}
        IN IF T = S THEN S ELSE F[T]
  IN F[ids]

\* With all that it would have triggered, of both types.
unschedule_downtime(d, type, id) ==
  LET gone == IF find_downtime(d, {type}, id) = {} THEN {}
              ELSE find_downtime(d, {type}, id)
                   \cup {m \in Listed(d) : m.id \in Family(d, {id}) \ {id}}
  IN FoldSet(LAMBDA m, e : delete_downtime(e, m), d, gone)

\* A filter is [host, service, start, text], each "any" (start 0) when it is not given.
Unfiltered == [host |-> "any", service |-> "any", start |-> 0, text |-> "any"]

DowntimeHost(m) == IF m.type = "host" THEN m.on ELSE HostOf[m.on]

Passes(m, f) ==
  /\ f.start \in {0, m.start}
  /\ f.text \in {"any", m.text}
  /\ f.host \in {"any", DowntimeHost(m)}
  /\ f.service # "any" => m.type = "service" /\ m.on = f.service

\* The loop goes on from the downtime that came next, also when that was deleted with
\* its family: what is read of it then deletes nothing, or the program dies (Crash).
delete_downtime_by_hostname_service_description_start_time_comment(d, f) ==
  IF f = Unfiltered THEN d
  ELSE FoldSet(LAMBDA m, e : unschedule_downtime(e, m.type, m.id), d,
               {m \in Listed(d) : Passes(m, f)})
-----------------------------------------------------------------------------
(* At a start, and in a CGI.                                               *)

sort_downtime(list) ==
  SortSeq(list, LAMBDA x, y : x.start < y.start \/ (x.start = y.start /\ x.id < y.id))

\* A downtime without its object goes, one that is over, and then one whose trigger went.
validate_downtime_data(d, now) ==
  LET stale == {m \in Listed(d) : ~ObjectExists(d, m) \/ m.end < now}
      valid == FoldSet(LAMBDA m, e : delete_downtime(e, m), d, stale)
      Judged(e, m) ==
        IF m.trigger # 0 /\ find_downtime(e, AnyType, m.trigger) = {} THEN delete_downtime(e, m)
        ELSE e
  IN FoldLeft(Judged, valid, valid.downtimes.list)

\* The first id, when the retention file gave none.
initialize_downtime_data(d, now) ==
  LET valid == validate_downtime_data(d, now)
  IN [valid EXCEPT !.downtimes.next =
        IF @ # 0 THEN @ ELSE 1 + Max({0} \cup {m.id : m \in Listed(valid)})]
=============================================================================
