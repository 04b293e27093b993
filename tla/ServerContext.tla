--------------------------- MODULE ServerContext ---------------------------
(***************************************************************************)
(* The server's context: what sq_server_create(), sq_server_destroy() and  *)
(* start_listening() of server/src/engine/net.c, the functions of          *)
(* server/src/engine/storage.c and the start and end of the server's       *)
(* main() acquire and release, in any order a caller may choose, with      *)
(* every failure of what they call.                                        *)
(***************************************************************************)
EXTENDS FiniteSets

VARIABLES
  ctx,    \* "none"; "api", "main": who made it; "exited"; "stuck" in a lock
  held,   \* what there is: "ctx", "arena", "db", "cache", "socket"
  flags,  \* which booleans are set in the context and in its arenas
  lost,   \* history: what there is but nobody can release, and why
  misuse, \* history: what was used or released after its release
  past    \* history: which of the two functions of storage.c that release
          \* something has done so

ctxVars == <<ctx, held, flags, lost, misuse, past>>

-----------------------------------------------------------------------------
(* sq_server_create(): what there is when each step fails, and what is     *)
(* undone.  A handle comes out of sqlite3_open() even when that fails.     *)
Acquired ==
  [heap_alloc |-> {}, arena_init |-> {"ctx"},
   sqlite3_open |-> {"ctx", "arena", "db"}, cache |-> {"ctx", "arena", "db"},
   sqlite3_exec |-> {"ctx", "arena", "db", "cache"}]

Undone ==
  [heap_alloc |-> {}, arena_init |-> {"ctx"},
   sqlite3_open |-> {"ctx", "arena"}, cache |-> {"ctx", "arena", "db"},
   sqlite3_exec |-> {"ctx", "arena", "db", "cache"}]

CreateFailsAt(step) ==
  /\ ctx = "none"
  /\ lost' = lost \cup ((Acquired[step] \ Undone[step]) \X {step})
  /\ UNCHANGED <<ctx, held, flags, misuse, past>>

Create ==
  /\ ctx = "none"
  /\ ctx' = "api"
  /\ held' = {"ctx", "arena", "db", "cache"}
  /\ flags' = {"is_arena_req", "is_open", "cache", "cache.db"}
  /\ UNCHANGED <<lost, misuse, past>>

(* main() takes its context out of an arena, then calls sq_db_init(), and  *)
(* looks at no result.  Without an arena it crashes.                       *)
MainStart(opened, cached) ==
  /\ ctx = "none"
  /\ ctx' = "main"
  /\ held' = {"ctx", "arena", "db"} \cup (IF opened /\ cached THEN {"cache"} ELSE {})
  /\ flags' = (IF opened THEN {"is_open"} ELSE {})
                \cup (IF opened /\ cached THEN {"cache", "cache.db"} ELSE {})
  /\ UNCHANGED <<lost, misuse, past>>

-----------------------------------------------------------------------------
Live == ctx \in {"api", "main"}

(* What is used or released must be there.  The pointer to the cache,      *)
(* unlike its flag "cache", is never null once it was set.                 *)
Touch(things) == misuse' = misuse \cup (things \ held)
Cache == {"cache"} \cap flags

(* What becomes of a caller that waits for the lock of the cache. *)
Unlocked(c) == IF "cache.locked" \in flags THEN "stuck" ELSE c

(* start_listening(); every failure ends the process. *)
Listen ==
  /\ Live
  /\ held' = held \cup {"socket"}
  /\ lost' = IF "socket" \in held THEN lost \cup {<<"socket", "again">>} ELSE lost
  /\ flags' = flags \cup {"is_running", "arena.fd"}
  /\ UNCHANGED <<ctx, misuse, past>>

ListenFails ==
  /\ Live
  /\ ctx' = "exited"
  /\ UNCHANGED <<held, flags, lost, misuse, past>>

FlagsAfterClose == flags \ {"is_open", "cache.db"}

(* sq_db_close(): the flag of the cache is cleared in the cache, under its *)
(* lock.                                                                   *)
DbClose ==
  /\ Live /\ "is_open" \in flags
  /\ ctx' = Unlocked(ctx)
  /\ held' = held \ {"db"}
  /\ flags' = FlagsAfterClose
  /\ Touch({"db"} \cup Cache)
  /\ past' = past \cup {"sq_db_close"}
  /\ UNCHANGED lost

(* arena_destroy() refuses while a resource is held, unless it is forced.  *)
Refuses(force, flag) == ~force /\ flag \in flags

(* sq_db_close_context(): is_arena_req and the pointer stay. *)
DbCloseContext(force) ==
  /\ Live /\ Cache # {} /\ ~Refuses(force, "cache.db")
  /\ ctx' = Unlocked(ctx)
  /\ held' = IF ctx' = "stuck" THEN held ELSE held \ Cache
  /\ Touch(Cache)
  /\ past' = past \cup {"sq_db_close_context"}
  /\ UNCHANGED <<flags, lost>>

(* sq_db_save_backlog(), and sq_load_backlog() up to its first row; h_db   *)
(* stays set when the database is closed.                                  *)
UseDb ==
  /\ Live
  /\ Touch({"db"})
  /\ UNCHANGED <<ctx, held, flags, lost, past>>

(* A row: arena_alloc() of a record, which may fail and then keeps the     *)
(* lock of the cache; after a text has failed the next one waits for ever. *)
LoadRow ==
  /\ Live /\ "is_open" \in flags
  /\ IF Cache = {} THEN ctx' = "exited" /\ flags' = flags
     ELSE IF "cache.locked" \in flags THEN ctx' = "stuck" /\ flags' = flags
     ELSE ctx' = ctx /\ flags' \in {flags, flags \cup {"cache.locked"}}
  /\ Touch(Cache)
  /\ UNCHANGED <<held, lost, past>>

(* Slip: the socket is closed whether there is one or not. *)
ReleasedSocket(force) ==
  {"ctx", "socket"} \cup Cache
  \cup (IF "is_open" \in flags THEN {"db"} ELSE {})
  \cup (IF Refuses(force, "arena.fd") THEN {} ELSE {"arena"})

(* sq_server_destroy().  Whatever arena_destroy() says, the pointer goes.  *)
(* An arena whose lock is kept is waited for, for ever.                    *)
Released(force) ==
  {"ctx"} \cup Cache
  \cup (IF "is_running" \in flags THEN {"socket"} ELSE {})
  \cup (IF "is_open" \in flags THEN {"db"} ELSE {})
  \cup (IF Refuses(force, "arena.fd") THEN {} ELSE {"arena"})

Destroy(force) ==
  /\ ctx = "api"
  /\ IF "cache.locked" \in flags
     THEN /\ ctx' = "stuck"
          /\ held' = held \ (Released(force) \cap {"socket", "db"})
          /\ UNCHANGED <<flags, lost, misuse>>
     ELSE /\ ctx' = "none"
          /\ lost' = lost \cup ((held \ Released(force)) \X {"unforced"})
          /\ held' = {} /\ flags' = {}
          /\ Touch(Released(force))
  /\ UNCHANGED past

(* The end of main(): sq_db_close() has been called; the listening socket  *)
(* is closed, and its arena destroyed by force.                            *)
MainEnd ==
  /\ ctx = "main" /\ "is_open" \notin flags
  /\ ctx' = "exited"
  /\ lost' = lost \cup ((held \ {"ctx", "arena", "socket"}) \X {"main"})
  /\ held' = {} /\ flags' = {}
  /\ UNCHANGED <<misuse, past>>

-----------------------------------------------------------------------------
ContextInit ==
  /\ ctx = "none" /\ held = {} /\ flags = {}
  /\ lost = {} /\ misuse = {} /\ past = {}

ContextNext ==
  \/ \E step \in DOMAIN Acquired : CreateFailsAt(step)
  \/ Create
  \/ \E opened, cached \in BOOLEAN : MainStart(opened, cached)
  \/ Listen \/ ListenFails \/ DbClose \/ UseDb \/ LoadRow \/ MainEnd
  \/ \E force \in BOOLEAN : DbCloseContext(force) \/ Destroy(force)

-----------------------------------------------------------------------------
(* Whatever fails and in whatever order the context is used, only these    *)
(* are left: the handle of a database that could not be opened (net.c:41), *)
(* an arena that was told to hold a socket, when its destruction is not    *)
(* forced (net.c:112), the socket of a first of two start_listening(), and *)
(* what main() does not release (main.c:75-78).                            *)
OnlyTheseAreLost ==
  lost \subseteq {<<"db", "sqlite3_open">>, <<"arena", "unforced">>,
                  <<"socket", "again">>, <<"cache", "main">>, <<"db", "main">>}

(* An arena never says that it holds a database connection that has been   *)
(* closed, and the context never calls a database open that is not         *)
(* (storage.c:25-29, 56-62; net.c:96-103).                                 *)
FlagsAreTrue ==
  Live => /\ "is_open" \in flags => "db" \in held
          /\ "cache.db" \in flags => "is_open" \in flags

(* Nothing is released twice, nor used after, whatever is called in        *)
(* whatever order, except the cache after sq_db_close_context(), which     *)
(* leaves its pointer behind (storage.c:64-69), and the database after     *)
(* sq_db_close(), which leaves h_db (storage.c:56-62, 75, 107).            *)
MisuseNeedsClose ==
  /\ misuse \subseteq {"cache", "db"}
  /\ "cache" \in misuse => "sq_db_close_context" \in past
  /\ "db" \in misuse => "sq_db_close" \in past

(* So of what the context holds nothing is lost, misnamed or released      *)
(* twice but what is named here (net.c:22-118, storage.c:14-69).           *)
ContextIsKept == OnlyTheseAreLost /\ FlagsAreTrue /\ MisuseNeedsClose
=============================================================================
