------------------------------ MODULE Resolver ------------------------------
(***************************************************************************)
(* How the daemon finds the directory a session works in, from a session   *)
(* file that the agent goes on writing, archives or replaces meanwhile     *)
(* (src/internal/codexrepo/resolver.go): an index of paths, a cache of the *)
(* answers, Codex's file read from the start each time it has changed, and *)
(* Claude's from where the last reading stopped.                           *)
(*                                                                         *)
(* One session, of either agent: sessions share the lock and nothing else. *)
(* A record of its file is the working directory it states, or Other,      *)
(* which states none or is another session's, or Huge, a line longer than  *)
(* the scanner takes.  A write may stop half-way in a record; sizes are    *)
(* counted in half records.                                                *)
(***************************************************************************)
EXTENDS Integers, FiniteSets, SequencesExt

CONSTANTS
  Dirs,        \* working directories
  Other, Huge, \* records that state no directory
  None,        \* no answer, no path
  MaxRecords,  \* bound: records in a file
  MaxTroubles  \* bound: moves and replacements of a file, and failed calls on it

ASSUME ResolverAssumption ==
  /\ {Other, Huge, None} \cap Dirs = {} /\ Cardinality({Other, Huge, None}) = 3
  /\ MaxRecords \in Nat \ {0} /\ MaxTroubles \in Nat

VARIABLES
  agent,     \* whose session it is
  file,      \* the session file: where it is, its records, its time stamp
  index,     \* the path found last
  cache,     \* the entry made last
  call,      \* the one call that holds r.mu
  answer,    \* the last answer
  truths,    \* what would have been right at some time of the call
  doubt,     \* the entry may have missed a directory
  troubles

session == <<agent, file, troubles>>
resolver == <<index, cache, call, answer>>
resolverVars == <<session, resolver, truths, doubt>>
-----------------------------------------------------------------------------
Records == Dirs \cup {Other, Huge}

\* In half records.
SizeOf(f) == 2 * Len(f.recs) - (IF f.half THEN 1 ELSE 0)

\* The records that start at or after an offset and are whole: a scanner that
\* starts within one, or meets the end in one, has a line that is no JSON.
Whole(f) == IF f.half THEN Front(f.recs) ELSE f.recs
From(f, offset) == SubSeq(Whole(f), (offset + 1) \div 2 + 1, Len(Whole(f)))

\* A line that does not fit the buffer ends the scan.
Scanned(recs) ==
  LET huge == {i \in DOMAIN recs : recs[i] = Huge}
  IN IF huge = {} THEN recs ELSE SubSeq(recs, 1, Min(huge) - 1)

\* Mutant: the first directory stated wins.
Latest_First(recs, current) ==
  LET stated == {i \in DOMAIN recs : recs[i] \in Dirs}
  IN IF stated = {} THEN current ELSE recs[Min(stated)]

\* applicableCWD and applicableClaudeCWD, record by record: the last wins.
Latest(recs, current) ==
  LET stated == {i \in DOMAIN recs : recs[i] \in Dirs}
  IN IF stated = {} THEN current ELSE recs[Max(stated)]

\* The directory of the session, by all that has been written of it: the one
\* after which no other is stated.
Truth(f) ==
  LET recs == Whole(f)
      Stands(dir) == \E i \in DOMAIN recs : recs[i] = dir /\ \A j \in i + 1 .. Len(recs) : recs[j] \notin Dirs
  IN IF \E dir \in Dirs : Stands(dir) THEN CHOOSE dir \in Dirs : Stands(dir) ELSE None

NoEntry == [path |-> None, size |-> 0, stamp |-> 0, cwd |-> None]
NoCall == [at |-> "idle", path |-> None, size |-> 0, stamp |-> 0]

ResolverInit ==
  /\ agent \in {"codex", "claude"}
  /\ file = [at |-> None, recs |-> <<>>, half |-> FALSE, stamp |-> 0]
  /\ index = None /\ cache = NoEntry
  /\ call = NoCall /\ answer = None
  /\ truths = {} /\ doubt = FALSE /\ troubles = 0
-----------------------------------------------------------------------------
\* What the agent does.  A write is also a new time stamp; stamps are compared
\* with that of the entry and of the call alone, so that four of them do.
Changes(f) ==
  /\ file' = f
  /\ truths' = IF call = NoCall THEN {} ELSE truths \cup {Truth(f)}
  /\ UNCHANGED <<agent, resolver>>

Writes(f) ==
  Changes([f EXCEPT !.stamp = Min((0 .. 3) \ {file.stamp, cache.stamp, call.stamp})])

\* A record is begun, and perhaps not finished; the first one makes the file.
Begins(rec) ==
  /\ ~ file.half /\ Len(file.recs) < MaxRecords
  /\ \E half \in BOOLEAN :
       Writes([file EXCEPT !.recs = Append(@, rec), !.half = half,
                           !.at = IF @ = None THEN "live" ELSE @])
  /\ UNCHANGED <<doubt, troubles>>

Finishes ==
  /\ file.half
  /\ Writes([file EXCEPT !.half = FALSE])
  /\ UNCHANGED <<doubt, troubles>>

Trouble == troubles < MaxTroubles /\ troubles' = troubles + 1

\* Codex archives a session, or takes it out of the archive: a rename, which
\* leaves the time stamp.
Moves ==
  /\ agent = "codex" /\ file.at # None /\ Trouble
  /\ Changes([file EXCEPT !.at = IF @ = "live" THEN "archive" ELSE "live"])
  /\ doubt' = doubt

\* Claude's file is written anew, with one record.  Unless it is seen while it is
\* shorter than the entry says, it seems to have grown.
Replaces(rec) ==
  /\ agent = "claude" /\ file.at # None /\ Trouble
  /\ Writes([file EXCEPT !.recs = <<rec>>, !.half = FALSE])
  /\ doubt' = TRUE
-----------------------------------------------------------------------------
\* resolveEntry and resolveClaudeEntry, under r.mu, one step per system call.
Answers(cwd) == answer' = cwd /\ call' = NoCall /\ truths' = {}

\* findSession: the path in the index, or else that of a walk, which fills it;
\* a session without a file has no answer, and is looked for again.
Find ==
  /\ call.at = "idle"
  /\ LET path == IF index # None THEN index ELSE file.at
     IN /\ index' = path
        /\ IF path = None THEN Answers(None)
           ELSE /\ call' = [NoCall EXCEPT !.at = "stat", !.path = path]
                /\ answer' = answer /\ truths' = {Truth(file)}
  /\ UNCHANGED <<session, cache, doubt>>

\* refreshIndex and refreshClaudeIndex: an error ends the walk before it comes to
\* the file, and is ignored: the session has no answer, as if it had no file.
FindFails ==
  /\ call.at = "idle" /\ index = None /\ file.at # None /\ Trouble
  /\ Answers(None)
  /\ UNCHANGED <<agent, file, index, cache, doubt>>

\* The file is not there any more, or it is and cannot be stated.
NotStated ==
  /\ call.at = "stat"
  /\ IF file.at = call.path THEN Trouble ELSE troubles' = troubles

\* Mutant: the index keeps a path that is gone.
StatFails_KeepsIndex ==
  /\ NotStated
  /\ Answers(None)
  /\ UNCHANGED <<agent, file, index, cache, doubt>>

\* Either way the next call looks for it anew.
StatFails ==
  /\ NotStated
  /\ index' = None /\ cache' = NoEntry
  /\ Answers(None)
  /\ UNCHANGED <<agent, file, doubt>>

\* Mutant: an entry for the path is enough.
Unchanged_ByPath(size, stamp) == cache.path = call.path

\* cacheUnchanged
Unchanged(size, stamp) ==
  cache.path = call.path /\ cache.size = size /\ cache.stamp = stamp

\* It has not changed since the entry was made,
Cached ==
  /\ call.at = "stat" /\ file.at = call.path
  /\ Unchanged(SizeOf(file), file.stamp)
  /\ Answers(cache.cwd)
  /\ UNCHANGED <<session, index, cache, doubt>>

\* or it has, and is read, some time after its size was taken.
Stat ==
  /\ call.at = "stat" /\ file.at = call.path
  /\ ~ Unchanged(SizeOf(file), file.stamp)
  /\ call' = [call EXCEPT !.at = "read", !.size = SizeOf(file), !.stamp = file.stamp]
  /\ UNCHANGED <<session, index, cache, answer, truths, doubt>>

\* Mutant: a file that has shrunk is read from where it ended.
ResumePoint_NoReset ==
  IF cache.path = call.path
  THEN [cwd |-> cache.cwd, offset |-> cache.size] ELSE [cwd |-> None, offset |-> 0]

\* resumePoint: the size of the last entry, unless the file has shrunk since.
ResumePoint ==
  IF cache.path = call.path /\ cache.size <= call.size
  THEN [cwd |-> cache.cwd, offset |-> cache.size] ELSE [cwd |-> None, offset |-> 0]

\* The entry has the size that was taken, whatever has been read since.
Keeps(cwd) ==
  /\ cache' = [path |-> call.path, size |-> call.size, stamp |-> call.stamp, cwd |-> cwd]
  /\ Answers(cwd)
  /\ UNCHANGED <<agent, file, index>>

\* readLatestCWD: the whole file, each time; nothing, if it has just been moved.
ReadCodex ==
  /\ call.at = "read" /\ agent = "codex"
  /\ LET there == file.at = call.path
     IN /\ Keeps(IF there THEN Latest(Scanned(Whole(file)), None) ELSE None)
        /\ doubt' = (~ there \/ Scanned(Whole(file)) # Whole(file))
  /\ troubles' = troubles

\* Nothing that states a directory is passed over: behind a line that is too
\* long, in a record cut off where the entry will end, or in a file that will
\* have grown to the size of the entry again.
MissesNone(recs) ==
  /\ Latest(recs, None) = Latest(Scanned(recs), None)
  /\ file.half /\ call.size = SizeOf(file) => Last(file.recs) \notin Dirs
  /\ call.size <= SizeOf(file)

\* readLatestClaudeCWD: what follows the resume point.  The entry is beyond
\* doubt again when there was none before or the file is shorter than it said,
\* or when a later record states a directory.
ReadClaude ==
  /\ call.at = "read" /\ agent = "claude"
  /\ LET point == ResumePoint
         recs == From(file, point.offset)
     IN /\ Keeps(Latest(Scanned(recs), point.cwd))
        /\ doubt' = \/ ~ MissesNone(recs)
                    \/ /\ doubt /\ Latest(recs, None) = None
                       /\ cache.path = call.path /\ cache.size <= call.size
  /\ troubles' = troubles

\* The file cannot be opened or sought: nothing is read, and the entry is made
\* as if it had been.
ReadFails ==
  /\ call.at = "read" /\ Trouble
  /\ Keeps(IF agent = "codex" THEN None ELSE ResumePoint.cwd)
  /\ doubt' = TRUE

Resolves == Find \/ StatFails \/ Cached \/ Stat \/ ReadCodex \/ ReadClaude

ResolverNext ==
  \/ \E rec \in Records : Begins(rec) \/ Replaces(rec)
  \/ Finishes \/ Moves
  \/ Resolves \/ FindFails \/ ReadFails

\* Telemetry of the session goes on, and every call ends.
ResolverSpec == ResolverInit /\ [][ResolverNext]_resolverVars /\ WF_resolverVars(Resolves)
-----------------------------------------------------------------------------
\* Properties.

\* resolver.go:23-25: "reparses active files when their size or modification
\* time changes so a later turn_context.cwd wins".  Unless the entry may have
\* missed a directory, every answer is a directory that was the session's at
\* some time of the call; or none, if the file could not be stated, or was
\* Codex's and has been moved.
NoFile == (agent = "codex" /\ file.at # call.path) \/ troubles' # troubles

AnswerIsCurrent ==
  [][call.at # "idle" /\ call'.at = "idle" /\ ~ doubt' =>
       answer' \in truths \cup (IF NoFile THEN {None} ELSE {})]_resolverVars

\* And the answers get there: when the agent has stopped writing, the session is
\* answered with its last directory, wherever its file was moved to and whatever
\* it was replaced with, unless the entry has missed it.
Settles == <>[](doubt \/ answer = Truth(file))
=============================================================================
