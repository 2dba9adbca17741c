------------------------------- MODULE MCThreads -------------------------------
(* An event thread started, used by two, stopped and started again; three users *)
(* of one mutex, one semaphore and one read-write lock.                         *)
EXTENDS Threads

CONSTANTS a, b, c

Op(o) == [op |-> o, n |-> 0]
OpN(o, n) == [op |-> o, n |-> n]

Service1 == [u \in Users |->
  CASE u = a -> <<Op("start"), Op("post"), Op("sync"), OpN("stop", 1), Op("post"), Op("start"), Op("sync"), OpN("stop", 1)>>
    [] u = b -> <<Op("post"), Op("sync"), Op("post")>>
    [] OTHER -> <<>>]
Service2 == [u \in Users |->
  CASE u = a -> <<Op("start"), Op("sync"), OpN("stop", 0), Op("post"), OpN("stop", 1), Op("delete"), Op("post")>>
    [] u = b -> <<Op("post"), Op("sync"), Op("sync")>>
    [] OTHER -> <<>>]
Mutexes == [u \in Users |-> <<Op("lock"), Op("lock"), Op("unlock"), Op("unlock"), Op("lock"), Op("unlock")>>]
Semaphores == [u \in Users |->
  CASE u = a -> <<OpN("acquire", 2), OpN("release", 1)>>
    [] u = b -> <<OpN("acquire", 1), OpN("release", 1)>>
    [] OTHER -> <<OpN("try", 1), OpN("release", 1), OpN("release", 1), OpN("try", 1)>>]
Shared == [u \in Users |->
  CASE u = a -> <<Op("read"), Op("unlockRW"), Op("read"), Op("unlockRW")>>
    [] u = b -> <<Op("write"), Op("unlockRW")>>
    [] OTHER -> <<Op("read"), Op("unlockRW"), Op("lock"), Op("unlock")>>]

MCScenarios == {[serial |-> m, program |-> p] : m \in BOOLEAN, p \in {Service1, Service2, Mutexes, Semaphores, Shared}}
=============================================================================
