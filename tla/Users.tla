-------------------------------- MODULE Users --------------------------------
(***************************************************************************)
(* The users of the database: the cache of the authentication manager,     *)
(* which decides the role of a request, and the records in the table       *)
(* _auth, from which a new process fills that cache. The table is written  *)
(* by create_user here and by nothing else: requests that name it as their *)
(* collection are left out.                                                *)
(***************************************************************************)
CONSTANTS UserKeys,    \* hashes of API keys
          Root,        \* the hash of the key "root"
          Absent,      \* no such user
          UserThreads, \* connection workers
          Requests     \* the <<key, role>> pairs that create_user is called with

Roles == {"NONE", "READ_ONLY", "READ_WRITE", "ADMIN"}

ASSUME UsersAssumption == /\ Root \in UserKeys
                          /\ Absent \notin Roles
                          /\ Requests \subseteq UserKeys \X Roles

VARIABLES up,       \* is the process running?
          cache,    \* the role of each key in the authentication cache
          stored,   \* the role in the record of each key
          disk,     \* what stored is after a crash
          booting,  \* has the constructor still to write the record of root?
          pending,  \* the record each thread has still to write
          failed,   \* has writing a record failed, in this process or before?
          short     \* did this process miss records when it loaded the table?

usersVars == <<up, cache, stored, disk, booting, pending, failed, short>>

Users == [UserKeys -> Roles \cup {Absent}]

NoUsers == [k \in UserKeys |-> Absent]

NoRecord == <<>>

(* Types of the variables.                                                  *)
UsersTypeOK == /\ up \in BOOLEAN
               /\ cache \in Users /\ stored \in Users /\ disk \in Users
               /\ booting \in BOOLEAN
               /\ pending \in [UserThreads -> Requests \cup {NoRecord}]
               /\ failed \in BOOLEAN /\ short \in BOOLEAN

Idle == [t \in UserThreads |-> NoRecord]

UsersInit == /\ up = FALSE
             /\ cache = NoUsers /\ stored = NoUsers /\ disk = NoUsers
             /\ booting = FALSE
             /\ pending = Idle
             /\ failed = FALSE /\ short = FALSE

-----------------------------------------------------------------------------
(* add_user does not replace an entry.                                      *)
AddUser(c, k, r) == IF c[k] = Absent THEN [c EXCEPT ![k] = r] ELSE c

(* authenticate: a key that is not in the cache has no role.                *)
Authenticate(k) == IF cache[k] = Absent THEN "NONE" ELSE cache[k]

(* Variant: ADMIN is not recognised.                                        *)
LoadedNoAdmin(r) == IF r \in {"READ_WRITE", Absent} THEN r ELSE "READ_ONLY"

(* The role that load_all reads from a record: what is neither ADMIN nor    *)
(* READ_WRITE is READ_ONLY.                                                 *)
LoadedRole(r) == IF r \in {"ADMIN", "READ_WRITE", Absent} THEN r ELSE "READ_ONLY"

(* A record is written, or the write fails.                                 *)
Put(k, r) == \/ stored' = [stored EXCEPT ![k] = r] /\ UNCHANGED failed
             \/ failed' = TRUE /\ UNCHANGED stored

(* Variant: the cache is left alone.                                        *)
CreateUncached(t, k, r) ==
    /\ up /\ ~booting /\ pending[t] = NoRecord
    /\ pending' = [pending EXCEPT ![t] = <<k, r>>]
    /\ UNCHANGED <<up, cache, stored, disk, booting, failed, short>>

(* Core::create_user: first the cache, then the table.                      *)
CreateCached(t, k, r) ==
    /\ up /\ ~booting /\ pending[t] = NoRecord
    /\ cache' = AddUser(cache, k, r)
    /\ pending' = [pending EXCEPT ![t] = <<k, r>>]
    /\ UNCHANGED <<up, stored, disk, booting, failed, short>>

CreateStored(t) ==
    /\ pending[t] # NoRecord
    /\ Put(pending[t][1], pending[t][2])
    /\ pending' = [pending EXCEPT ![t] = NoRecord]
    /\ UNCHANGED <<up, cache, disk, booting, short>>

(* load_collection returns what it could read of the table, which is all of *)
(* it, the part before an error, or nothing.                                *)
Loaded(read) == [k \in UserKeys |-> IF k \in read THEN LoadedRole(disk[k]) ELSE Absent]

(* The constructor of Core: load the table; if there is no user, create the *)
(* administrator root, whether its record can be written or not.            *)
Start(read) ==
    /\ ~up /\ up' = TRUE
    /\ short' = (\E k \in UserKeys \ read : disk[k] # Absent)
    /\ booting' = (Loaded(read) = NoUsers)
    /\ cache' = IF Loaded(read) = NoUsers THEN AddUser(NoUsers, Root, "ADMIN") ELSE Loaded(read)
    /\ UNCHANGED <<stored, disk, pending, failed>>

Bootstrap ==
    /\ booting /\ booting' = FALSE
    /\ Put(Root, "ADMIN")
    /\ UNCHANGED <<up, cache, disk, pending, short>>

(* The end of the process: clean, or by a crash that loses what was written *)
(* since the start.                                                         *)
ProcessEnds(image) ==
    /\ up /\ up' = FALSE
    /\ stored' = image /\ disk' = image
    /\ cache' = NoUsers
    /\ booting' = FALSE
    /\ pending' = Idle
    /\ short' = FALSE
    /\ UNCHANGED failed

Shutdown == pending = Idle /\ ~booting /\ ProcessEnds(stored)

Crash == ProcessEnds(disk)

UsersNext == \/ \E t \in UserThreads : \/ \E c \in Requests : CreateCached(t, c[1], c[2])
                                       \/ CreateStored(t)
             \/ \E read \in SUBSET UserKeys : Start(read)
             \/ Bootstrap \/ Shutdown \/ Crash

UsersSpec == UsersInit /\ [][UsersNext]_usersVars

-----------------------------------------------------------------------------
Quiet == up /\ ~booting /\ pending = Idle

(* Each key is given one role only, and never NONE.                         *)
PlainRequests == /\ \A c, e \in Requests \cup {<<Root, "ADMIN">>} : c[1] = e[1] => c = e
                 /\ \A c \in Requests : c[2] # "NONE"

(* Every user with a record is known to the cache, whatever the order in    *)
(* which threads create users and records are written or lost, in every     *)
(* process that could read the whole table.                                 *)
StoredUserKnown ==
    up /\ ~short => \A k \in UserKeys : stored[k] # Absent => cache[k] # Absent

(* If every key is given one role only and no write has failed, the cache   *)
(* and the table agree between calls, so that a restart changes nobody's    *)
(* role; and at any time somebody can log in as an administrator, also      *)
(* after a crash between cache and table. A process that could read only a  *)
(* part of the table has neither; it does no harm to the next one.          *)
RolesAgree == PlainRequests /\ ~failed /\ ~short =>
                 /\ Quiet => cache = stored
                 /\ up => \E k \in UserKeys : Authenticate(k) = "ADMIN"

-----------------------------------------------------------------------------
(* The inductive invariants behind StoredUserKnown and RolesAgree.          *)

(* A record that is written, or about to be, belongs to a cached user; a    *)
(* process that is down leaves the table as the next one finds it.          *)
KnownInv ==
    /\ UsersTypeOK
    /\ ~up => pending = Idle /\ booting = FALSE /\ stored = disk
    /\ booting => cache[Root] # Absent
    /\ \A t \in UserThreads : pending[t] # NoRecord => cache[pending[t][1]] # Absent
    /\ StoredUserKnown

(* The users and the roles that the system can be asked to create.          *)
Granted == Requests \cup {<<Root, "ADMIN">>}

(* Every role is one that was asked for; a cached user has a record or a    *)
(* thread is about to write it; and root is an administrator in the cache,  *)
(* if the table was read, in the table once the constructor has written it, *)
(* and on disk unless nothing is.                                           *)
AgreeInv ==
    /\ \A k \in UserKeys : /\ cache[k] # Absent => <<k, cache[k]>> \in Granted
                           /\ stored[k] # Absent => <<k, stored[k]>> \in Granted
                           /\ disk[k] # Absent => <<k, disk[k]>> \in Granted
    /\ up => \A k \in UserKeys : cache[k] # Absent
                => \/ stored[k] # Absent
                   \/ \E t \in UserThreads : pending[t] # NoRecord /\ pending[t][1] = k
                   \/ booting /\ k = Root
    /\ up /\ ~short => cache[Root] = "ADMIN"
    /\ up /\ ~booting => stored[Root] = "ADMIN"
    /\ disk = NoUsers \/ disk[Root] = "ADMIN"

UsersInv == KnownInv /\ (PlainRequests /\ ~failed => AgreeInv)
=============================================================================
