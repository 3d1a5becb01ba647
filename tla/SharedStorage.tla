---------------------------- MODULE SharedStorage -----------------------------
(***************************************************************************)
(* What plugins of one process share, as values: the storage that lends    *)
(* one client to all the instances of a plugin, the cache of statistics    *)
(* that the lines of a pipeline fill together, and the cache of templates. *)
(* Each operation takes the mutex of what it works on, so that it is one   *)
(* step.  A key that is absent from a Go map has the zero value here.      *)
(***************************************************************************)
EXTENDS Integers

CONSTANT None   \* no client, no value

(* A storage: how many instances hold a key, and the object they were      *)
(* given.                                                                  *)
NewStorage(K) == [members |-> [k \in K |-> 0], objects |-> [k \in K |-> None]]

Stored(s, id, obj) == IF s.objects[id] = None THEN obj ELSE s.objects[id]

CompareAndStore(s, id, obj) ==
  [members |-> [s.members EXCEPT ![id] = @ + 1],
   objects |-> [s.objects EXCEPT ![id] = Stored(s, id, obj)]]

LastMember(s, id) == s.members[id] = 1

Leave(s, id) ==
  [members |-> [s.members EXCEPT ![id] = @ - 1],
   objects |-> [s.objects EXCEPT ![id] = IF LastMember(s, id) THEN None ELSE @]]

(* A cache of statistics: the instances that write to it, how many of      *)
(* their flushes were counted since the last report, and the values        *)
(* observed since then.                                                    *)
NoCache == [writers |-> 0, syncPoint |-> 0, fresh |-> {}]

NewCache(c) == [c EXCEPT !.writers = @ + 1]

CacheObserve(c, v) == [c EXCEPT !.fresh = @ \cup {v}]

AllFlushed(c) == c.syncPoint + 1 = c.writers

\* Mutated form of CacheFlush: the count starts again with every flush.
CacheFlush_Restart(c) ==
  [c EXCEPT !.syncPoint = 0, !.fresh = IF AllFlushed(c) THEN {} ELSE @]

CacheFlush(c) ==
  IF AllFlushed(c)
  THEN [writers |-> c.writers, syncPoint |-> 0, fresh |-> {}]
  ELSE [c EXCEPT !.syncPoint = @ + 1]

CacheClear(c) == IF c.syncPoint = 0 THEN NoCache ELSE c

(* The cache of templates: the instances that use it and the templates     *)
(* parsed so far.                                                          *)
NoTemplates == [u |-> 0, m |-> {}]

Reg(c) == [c EXCEPT !.u = @ + 1]

Put(c, t) == [c EXCEPT !.m = @ \cup {t}]

LeaveTemplates(c) ==
  IF c.u - 1 <= 0 THEN NoTemplates ELSE [c EXCEPT !.u = @ - 1]
=============================================================================
