---------------------------- MODULE GlobalLogger ----------------------------
(***************************************************************************)
(* GlobalLogger: the one logger of the process.  Log() writes its record   *)
(* under mFileMutex; SetTarget() and SetLevel() store into the same object *)
(* without it.  Threads log and set targets at the same time, so each load *)
(* and store that another thread may see is a step.  The strings that      *)
(* serve as targets belong to the application and are external, and so is  *)
(* the kernel's side of write().                                           *)
(***************************************************************************)
EXTENDS Integers, Sequences, FiniteSets

CONSTANTS
  Loggers,         (* the threads that log                                 *)
  Setters,         (* the threads that call SetTarget and SetLevel         *)
  Strings, Fds,    (* the targets                                          *)
  StartFd,         (* STDOUT_FILENO, descriptor 1                          *)
  Stdin,           (* descriptor 0                                         *)
  Warning,         (* what SetTarget writes when it is given descriptor 0  *)
  Levels, StartLevel, (* the severities in use, Informational              *)
  MaxLogs,         (* bound: records of one thread                         *)
  MaxWarnings,     (* bound: warnings that are written                     *)
  InOrder,         (* two stores of a thread are seen in program order     *)
  StringsDie,      (* the application destroys strings it logs to no more  *)
  Null, NoTarget, Nobody

Threads == Loggers \cup Setters
Targets == Strings \cup Fds

VARIABLES
  bIsStringTarget, mStringTarget, mFDTarget, mLevel,
  mFileMutex,      (* the thread that holds it, or Nobody                  *)
  pc,              (* where each thread is                                 *)
  logged,          (* the records each thread has logged                   *)
  arg,             (* the target a thread is setting                       *)
  stores,          (* the stores of its SetTarget that are not done        *)
  base,            (* what a string held when an append to it began        *)
  goesTo,          (* where a thread's record goes                         *)
  content,         (* what each target holds                               *)
  living,          (* the strings that exist                               *)
  accepted,        (* history: records that passed the level, and that no  *)
                   (* write() refused                                      *)
  latest,          (* history: the target each thread set, until another   *)
                   (* call that began later has set one                    *)
  older,           (* history: whose targets a running SetTarget replaces  *)
  seen             (* history: targets asked for since a LOG looked at the *)
                   (* flag, until it looks at the place                    *)

logger  == <<bIsStringTarget, mStringTarget, mFDTarget>>
setting == <<arg, stores, latest, older>>
logging == <<logged, base, goesTo, accepted>>
vars    == <<logger, mLevel, mFileMutex, pc, setting, logging, content, living, seen>>

Records == Loggers \X (1 .. MaxLogs)
Lines   == Records \cup {Warning}
Places  == {"idle", "waiting", "locked", "toString", "appending", "toFile",
            "writing", "written", "wild", "setting"}

ASSUME GlobalLoggerAssumption ==
  /\ IsFiniteSet(Loggers) /\ IsFiniteSet(Setters)
  /\ Strings \cap Fds = {} /\ StartFd \in Fds /\ Stdin \in Fds
  /\ Null \notin Strings \cup Fds /\ NoTarget \notin Targets /\ Nobody \notin Threads
  /\ Levels \subseteq Nat /\ StartLevel \in Levels
  /\ MaxLogs \in Nat /\ MaxWarnings \in Nat /\ Warning \notin Records
  /\ {InOrder, StringsDie} \subseteq BOOLEAN

\* The targets a record may go to now: those that were set last, as far as
\* running calls do not replace them, and those being set.
AskedFor == ({latest[u] : u \in Threads} \cup {arg[u] : u \in Threads}) \ {NoTarget}

\* The thread knows the kind of its target, and not yet which it is.
Choosing(t) == pc[t] \in {"toString", "toFile"}

Goes(t, from, to) == pc[t] = from /\ pc' = [pc EXCEPT ![t] = to]
-----------------------------------------------------------------------------
(* LOG(level) << message: ~LogStream() and Log().                          *)

\* The level is looked at before the mutex is taken.
LOG(t, level) ==
  /\ logged[t] < MaxLogs
  /\ logged' = [logged EXCEPT ![t] = @ + 1]
  /\ \/ /\ level <= mLevel
        /\ Goes(t, "idle", "waiting")
        /\ accepted' = accepted \cup {<<t, logged[t] + 1>>}
     \/ /\ level > mLevel
        /\ Goes(t, "idle", "idle")
        /\ UNCHANGED accepted
  /\ UNCHANGED <<logger, mLevel, mFileMutex, setting, base, goesTo, content, living, seen>>

\* Defect: no pthread_mutex_lock.
Lock_Nothing(t) ==
  /\ Goes(t, "waiting", "locked")
  /\ UNCHANGED <<logger, mLevel, mFileMutex, setting, logging, content, living, seen>>

Lock(t) ==
  /\ mFileMutex = Nobody
  /\ mFileMutex' = t
  /\ Goes(t, "waiting", "locked")
  /\ UNCHANGED <<logger, mLevel, setting, logging, content, living, seen>>

\* if (bIsStringTarget)
ReadsFlag(t) ==
  /\ Goes(t, "locked", IF bIsStringTarget THEN "toString" ELSE "toFile")
  /\ seen' = [seen EXCEPT ![t] = AskedFor]
  /\ UNCHANGED <<logger, mLevel, mFileMutex, setting, logging, content, living>>

\* *mStringTarget += record: the pointer is read, then the string is read and
\* written.  Through a pointer that is NULL or to a string that is gone, the
\* append goes wild.
AppendBegins(t) ==
  /\ \/ /\ mStringTarget \in living
        /\ Goes(t, "toString", "appending")
        /\ base' = [base EXCEPT ![t] = content[mStringTarget]]
        /\ goesTo' = [goesTo EXCEPT ![t] = mStringTarget]
     \/ /\ mStringTarget \notin living
        /\ Goes(t, "toString", "wild")
        /\ UNCHANGED <<base, goesTo>>
  /\ seen' = [seen EXCEPT ![t] = {}]
  /\ UNCHANGED <<logger, mLevel, mFileMutex, setting, logged, accepted, content, living>>

AppendEnds(t) ==
  /\ \/ /\ goesTo[t] \in living
        /\ Goes(t, "appending", "written")
        /\ content' = [content EXCEPT ![goesTo[t]] = Append(base[t], <<t, logged[t]>>)]
     \/ /\ goesTo[t] \notin living
        /\ Goes(t, "appending", "wild")
        /\ UNCHANGED content
  /\ base' = [base EXCEPT ![t] = <<>>]
  /\ UNCHANGED <<logger, mLevel, mFileMutex, setting, logged, goesTo, accepted, living, seen>>

\* write(mFDTarget, record): the descriptor is read, then comes the system call.
\* It may fail, and its result is not looked at.
ReadsPlace(t) ==
  /\ Goes(t, "toFile", "writing")
  /\ goesTo' = [goesTo EXCEPT ![t] = mFDTarget]
  /\ seen' = [seen EXCEPT ![t] = {}]
  /\ UNCHANGED <<logger, mLevel, mFileMutex, setting, logged, base, accepted, content, living>>

Writes(t) ==
  /\ Goes(t, "writing", "written")
  /\ \/ /\ content' = [content EXCEPT ![goesTo[t]] = Append(@, <<t, logged[t]>>)]
        /\ UNCHANGED accepted
     \/ /\ accepted' = accepted \ {<<t, logged[t]>>}
        /\ UNCHANGED content
  /\ UNCHANGED <<logger, mLevel, mFileMutex, setting, logged, base, goesTo, living, seen>>

\* Defect: the branch of the string returns with the mutex held.
Unlock_FileOnly(t) ==
  /\ Goes(t, "written", "idle")
  /\ mFileMutex' = IF goesTo[t] \in Strings THEN mFileMutex ELSE Nobody
  /\ goesTo' = [goesTo EXCEPT ![t] = NoTarget]
  /\ UNCHANGED <<logger, mLevel, setting, logged, base, accepted, content, living, seen>>

Unlock(t) ==
  /\ Goes(t, "written", "idle")
  /\ mFileMutex' = Nobody
  /\ goesTo' = [goesTo EXCEPT ![t] = NoTarget]
  /\ UNCHANGED <<logger, mLevel, setting, logged, base, accepted, content, living, seen>>

Log(t) ==
  \/ Lock(t) \/ ReadsFlag(t) \/ AppendBegins(t) \/ AppendEnds(t)
  \/ ReadsPlace(t) \/ Writes(t) \/ Unlock(t)
-----------------------------------------------------------------------------
(* SetTarget(str) and SetTarget(fd): the place is stored, then the flag.   *)

\* Descriptor 0 is taken like any other, with a warning on descriptor 1, where
\* the write may fail.
Warns ==
  /\ Len(SelectSeq(content[StartFd], LAMBDA line : line = Warning)) < MaxWarnings
  /\ content' = [content EXCEPT ![StartFd] = Append(@, Warning)]

SetTarget(t, x) ==
  /\ x \in living \cup Fds
  /\ Goes(t, "idle", "setting")
  /\ arg' = [arg EXCEPT ![t] = x]
  /\ stores' = [stores EXCEPT ![t] = {"place", "flag"}]
  /\ older' = [older EXCEPT ![t] = Threads]
  /\ seen' = [u \in Threads |-> IF Choosing(u) THEN seen[u] \cup {x} ELSE {}]
  /\ UNCHANGED content \/ (x = Stdin /\ Warns)
  /\ UNCHANGED <<logger, mLevel, mFileMutex, logging, living, latest>>

StorePlace(t) ==
  /\ "place" \in stores[t]
  /\ \/ arg[t] \in Strings /\ mStringTarget' = arg[t] /\ UNCHANGED mFDTarget
     \/ arg[t] \in Fds /\ mFDTarget' = arg[t] /\ UNCHANGED mStringTarget
  /\ UNCHANGED bIsStringTarget

\* Defects: the flag first, or SetTarget(fd) leaves the flag.
StoreFlag_First(t) ==
  /\ "flag" \in stores[t]
  /\ bIsStringTarget' = (arg[t] \in Strings)
  /\ UNCHANGED <<mStringTarget, mFDTarget>>

StoreFlag_OnlySets(t) ==
  /\ "flag" \in stores[t] /\ (InOrder => "place" \notin stores[t])
  /\ bIsStringTarget' = (bIsStringTarget \/ arg[t] \in Strings)
  /\ UNCHANGED <<mStringTarget, mFDTarget>>

StoreFlag(t) ==
  /\ "flag" \in stores[t] /\ (InOrder => "place" \notin stores[t])
  /\ bIsStringTarget' = (arg[t] \in Strings)
  /\ UNCHANGED <<mStringTarget, mFDTarget>>

Stores(t, what) ==
  /\ \/ what = "place" /\ StorePlace(t)
     \/ what = "flag" /\ StoreFlag(t)
  /\ stores' = [stores EXCEPT ![t] = @ \ {what}]
  /\ pc[t] = "setting"
  /\ UNCHANGED <<pc, mLevel, mFileMutex, arg, latest, older, logging, content, living, seen>>

SetTargetReturns(t) ==
  /\ stores[t] = {}
  /\ Goes(t, "setting", "idle")
  /\ arg' = [arg EXCEPT ![t] = NoTarget]
  /\ latest' = [u \in Threads |-> IF u = t THEN arg[t]
                                  ELSE IF u \in older[t] THEN NoTarget ELSE latest[u]]
  /\ older' = [u \in Threads |-> IF u = t THEN {} ELSE older[u] \ {t}]
  /\ UNCHANGED <<logger, mLevel, mFileMutex, stores, logging, content, living, seen>>

SetLevel(t, level) ==
  /\ Goes(t, "idle", "idle")
  /\ mLevel' = level
  /\ UNCHANGED <<logger, mFileMutex, setting, logging, content, living, seen>>

\* The application gives up a string once SetTarget has returned with another
\* target and nobody asks for the string any more.
DestroyString(s) ==
  /\ StringsDie
  /\ s \in living \ AskedFor
  /\ living' = living \ {s}
  /\ UNCHANGED <<logger, mLevel, mFileMutex, pc, setting, logging, content, seen>>
-----------------------------------------------------------------------------
Init ==
  /\ bIsStringTarget = FALSE /\ mStringTarget = Null
  /\ mFDTarget = StartFd /\ mLevel = StartLevel
  /\ mFileMutex = Nobody
  /\ pc = [t \in Threads |-> "idle"]
  /\ logged = [t \in Threads |-> 0]
  /\ arg = [t \in Threads |-> NoTarget]
  /\ stores = [t \in Threads |-> {}]
  /\ base = [t \in Threads |-> <<>>]
  /\ goesTo = [t \in Threads |-> NoTarget]
  /\ content = [x \in Targets |-> <<>>]
  /\ living = Strings
  /\ accepted = {}
  /\ latest = [t \in Threads |-> StartFd]
  /\ older = [t \in Threads |-> {}]
  /\ seen = [t \in Threads |-> {}]

SetTargetStep(t) ==
  \/ \E what \in {"place", "flag"} : Stores(t, what)
  \/ SetTargetReturns(t)

Next ==
  \/ \E t \in Loggers : Log(t) \/ \E level \in Levels : LOG(t, level)
  \/ \E t \in Setters :
       \/ \E x \in Targets : SetTarget(t, x)
       \/ \E level \in Levels : SetLevel(t, level)
       \/ SetTargetStep(t)
  \/ \E s \in Strings : DestroyString(s)

Spec == Init /\ [][Next]_vars

\* A thread that runs Log or SetTarget goes on running.
FairSpec ==
  /\ Spec
  /\ \A t \in Loggers : WF_vars(Log(t))
  /\ \A t \in Setters : WF_vars(SetTargetStep(t))
-----------------------------------------------------------------------------
(* Properties.                                                             *)

\* The values each variable ranges over.
TypeOK ==
  /\ bIsStringTarget \in BOOLEAN
  /\ mStringTarget \in Strings \cup {Null} /\ mFDTarget \in Fds
  /\ mLevel \in Levels
  /\ mFileMutex \in Loggers \cup {Nobody}
  /\ pc \in [Threads -> Places]
  /\ logged \in [Threads -> 0 .. MaxLogs]
  /\ arg \in [Threads -> Targets \cup {NoTarget}]
  /\ stores \in [Threads -> SUBSET {"place", "flag"}]
  /\ base \in [Threads -> Seq(Lines)]
  /\ goesTo \in [Threads -> Targets \cup {NoTarget}]
  /\ content \in [Targets -> Seq(Lines)]
  /\ living \subseteq Strings
  /\ accepted \subseteq Records
  /\ latest \in [Threads -> Targets \cup {NoTarget}]
  /\ older \in [Threads -> SUBSET Threads]
  /\ seen \in [Threads -> SUBSET Targets]

\* Where the target x holds record r.
Copies(r, x) == {i \in DOMAIN content[x] : content[x][i] = r}

IsWriting(r) == pc[r[1]] \notin {"idle", "written"} /\ logged[r[1]] = r[2]

\* Every record that passed the level and that no write() refused is, once its
\* LOG has returned, in one target, and there once: no thread's append undoes
\* another's, whatever targets are set in the meantime.
EveryRecordOnce ==
  \A r \in accepted : ~IsWriting(r) =>
    \E x \in Targets :
      /\ Cardinality(Copies(r, x)) = 1
      /\ \A y \in Targets \ {x} : Copies(r, y) = {}

\* No record is appended to a string that is gone, or through NULL.
NoWildAppend == \A t \in Threads : pc[t] # "wild"

\* Where the stores of SetTarget are seen in program order, not even a LOG that
\* runs meanwhile takes the first string for set before it is: it never appends
\* through NULL.
NeverThroughNull == \A t \in Threads : pc[t] = "wild" => mStringTarget # Null

\* A record goes to a target that was set, or was being set, at some moment
\* between the look of its LOG at the flag and that at the place, never to one that
\* was replaced before, though SetTarget stores the two one after the other.
RecordsGoWhereTold ==
  [][\A t \in Threads :
       goesTo'[t] \notin {goesTo[t], NoTarget} => goesTo'[t] \in seen[t]]_vars

\* LOG returns, if the others do not log for ever and no append goes wild: the
\* mutex is released on every path.
LogReturns ==
  \A t \in Loggers : pc[t] = "waiting" ~> pc[t] = "idle" \/ \E u \in Loggers : pc[u] = "wild"
-----------------------------------------------------------------------------
(* What LOG promises.                                                      *)

\* A thread owes its record until it is written; one whose append went wild
\* owes it for ever.
Journal ==
  INSTANCE LogJournal
    WITH Other  <- Warning,
         logged <- [t \in Loggers |-> logged[t]],
         inside <- [t \in Loggers |-> pc[t] \notin {"idle", "setting"}],
         owes   <- [t \in Loggers |-> pc[t] \notin {"idle", "setting", "written"}]

\* LOG is atomic to all who read a target: between its beginning and its end
\* there is one moment at which its record is added behind all others, whole,
\* and nothing that was there is ever changed by the records of other threads,
\* though an append reads the string in one step and writes it in another.
ImplementsJournal == Journal!Spec
=============================================================================
