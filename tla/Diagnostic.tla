------------------------------ MODULE Diagnostic ------------------------------
(* `cloudflared tunnel diag` (diagnostic/): the instance is looked for on the
   known addresses, jobs run one after the other, each leaves a file of a fixed
   name in the directory of temporary files, a report says how each job ended,
   and the files are put into an archive, named for the second, and removed.
   Two such commands may run at once: the names are the same for both.       *)
EXTENDS Naturals, FiniteSets, Sequences

CONSTANTS Reporters,
          Bypasses,      \* bound: sets of jobs the toggles may leave out
          Seconds        \* bound: the seconds in which an archive is created, 1, 2, ...
ASSUME ReportersAssumption == "absent" \notin Reporters /\ Seconds \subseteq Nat \ {0}

\* runJobs, in order: "endpoint" stands for the jobs that copy an endpoint of the
\* instance, and for the one that writes the connectivity checks; "raw" and
\* "trace" share one run of traceroute
Jobs == <<"endpoint", "logs", "raw", "trace", "report">>
Names == {Jobs[i] : i \in 1..Len(Jobs)}

VARIABLES
    diagPc,         \* "find", a job, "zip", "clean" or "returned"
    bypass,     \* the jobs that are left out
    creating,   \* has the current job created its file
    linked,     \* is the file it has open still the one of that name
    results,    \* job -> [ok, path]: as in taskResult, is a path in it
    traced,     \* the memo of sync.Once: "no", "ok" or "error"
    files,      \* name -> the processes whose output it has, or NotThere
    archive,    \* name -> the contents put into the archive
    written,    \* was the archive reported to be written
    stamp,      \* the second in the name of the archive, or 0
    zips,       \* second -> the processes whose whole archive it has, or NotThere
    zipLinked,  \* is the archive it has open still the one of that name
    broke,      \* could the archive not be created, or not be added to
    failed,     \* did RunDiagnostic return an error
    overlapped  \* ghost: was another command at its jobs meanwhile

zipVars == <<stamp, zips, zipLinked, broke>>
diagVars == <<diagPc, bypass, creating, linked, results, traced, files, archive, written,
              zipVars, failed, overlapped>>

NotThere == {"absent"}
NoResults == [j \in {} |-> 0]

DiagInit ==
    /\ diagPc = [p \in Reporters |-> "find"]
    /\ bypass \in [Reporters -> Bypasses]
    /\ creating = [p \in Reporters |-> FALSE] /\ linked = [p \in Reporters |-> FALSE]
    /\ results = [p \in Reporters |-> NoResults]
    /\ traced = [p \in Reporters |-> "no"]
    /\ files = [n \in Names |-> NotThere]
    /\ archive = [p \in Reporters |-> NoResults]
    /\ written = [p \in Reporters |-> FALSE]
    /\ stamp = [p \in Reporters |-> 0] /\ zips = [s \in Seconds |-> NotThere]
    /\ zipLinked = [p \in Reporters |-> FALSE] /\ broke = [p \in Reporters |-> FALSE]
    /\ failed = [p \in Reporters |-> FALSE]
    /\ overlapped = [p \in Reporters |-> FALSE]

\* the jobs that p still runs, from index i on
From(p, i) == {k \in i..Len(Jobs) : Jobs[k] \notin bypass[p]}
JobAfter(p, i) ==
    LET rest == From(p, i) IN
    IF rest = {} THEN "zip" ELSE Jobs[CHOOSE k \in rest : \A l \in rest : k <= l]
Index(j) == CHOOSE i \in 1..Len(Jobs) : Jobs[i] = j
Following(p) == JobAfter(p, Index(diagPc[p]) + 1)

Busy(p) == diagPc[p] \notin {"find", "returned"}

\* FindMetricsServer: exactly one of the known addresses has to answer
Find(p) ==
    /\ diagPc[p] = "find"
    /\ \E instances \in 0..2 :
          /\ diagPc' = [diagPc EXCEPT ![p] = IF instances = 1 THEN JobAfter(p, 1) ELSE "returned"]
          /\ failed' = [failed EXCEPT ![p] = instances # 1]
          /\ overlapped' = IF instances = 1
               THEN [q \in Reporters |-> overlapped[q] \/ \E r \in Reporters \ {q} :
                                     {q, r} \subseteq {b \in Reporters : Busy(b)} \cup {p}]
               ELSE overlapped
    /\ UNCHANGED <<bypass, creating, linked, results, traced, files, archive, written, zipVars>>

-----------------------------------------------------------------------------
(* A job: the file is created, which truncates one of that name; then it is
   written, or the job fails part-way.                                       *)
Done(p, ok, path) ==
    /\ results' = [results EXCEPT ![p] = [j \in DOMAIN @ \cup {diagPc[p]} |->
          IF j = diagPc[p] THEN [ok |-> ok, path |-> path] ELSE @[j]]]
    /\ creating' = [creating EXCEPT ![p] = FALSE]
    /\ diagPc' = [diagPc EXCEPT ![p] = Following(p)]

IsJob(p) == diagPc[p] \in Names

\* traceroute of both regions, for whichever of its two jobs comes first
Trace(p) ==
    /\ diagPc[p] \in {"raw", "trace"} /\ traced[p] = "no"
    /\ traced' \in {[traced EXCEPT ![p] = r] : r \in {"ok", "error"}}
    /\ UNCHANGED <<diagPc, bypass, creating, linked, results, files, archive, written, failed,
                   zipVars, overlapped>>

Ready(p) == IsJob(p) /\ ~creating[p] /\ (diagPc[p] \in {"raw", "trace"} => traced[p] # "no")

CreateFile(p) ==
    /\ Ready(p)
    /\ files' = [files EXCEPT ![diagPc[p]] = {}]
    /\ creating' = [creating EXCEPT ![p] = TRUE]
    /\ linked' = [linked EXCEPT ![p] = TRUE]
    /\ UNCHANGED <<diagPc, bypass, results, traced, archive, written, zipVars, failed,
                   overlapped>>

\* the file cannot be created, or nothing is there to be collected
CreateFails(p) ==
    /\ Ready(p)
    /\ Done(p, FALSE, FALSE)
    /\ UNCHANGED <<bypass, linked, traced, files, archive, written, zipVars, failed,
                   overlapped>>

Put(p) == IF linked[p] THEN [files EXCEPT ![diagPc[p]] = @ \cup {p}] ELSE files

\* a trace that failed leaves its mark in a file that is complete otherwise
WriteFile(p) ==
    /\ creating[p]
    /\ files' = Put(p)
    /\ Done(p, diagPc[p] \in {"raw", "trace"} => traced[p] = "ok", TRUE)
    /\ UNCHANGED <<bypass, linked, traced, archive, written, zipVars, failed,
                   overlapped>>

\* the endpoint, the disk or the deadline fails the job: the logs and the
\* report lose the name of their file
WriteFails(p) ==
    /\ creating[p]
    /\ files' \in {files, Put(p)}
    /\ Done(p, FALSE, diagPc[p] \notin {"logs", "report"})
    /\ UNCHANGED <<bypass, linked, traced, archive, written, zipVars, failed,
                   overlapped>>

-----------------------------------------------------------------------------
WithPath(p) == {j \in DOMAIN results[p] : results[p][j].path}

\* CreateDiagnosticZipFile, in the second of the last archive or a later one: the
\* archive of the same second is truncated
CreateZip(p) ==
    /\ diagPc[p] = "zip" /\ stamp[p] = 0
    /\ \E s \in Seconds :
          /\ \A q \in Reporters : stamp[q] <= s
          /\ s > 1 => \E q \in Reporters : stamp[q] \in {s, s - 1}
          /\ stamp' = [stamp EXCEPT ![p] = s] /\ zips' = [zips EXCEPT ![s] = {}]
    /\ zipLinked' = [zipLinked EXCEPT ![p] = TRUE]
    /\ UNCHANGED <<diagPc, bypass, creating, linked, results, traced, files, archive, written,
                   broke, failed, overlapped>>

\* in the order of a map
ZipFile(p) ==
    /\ diagPc[p] = "zip" /\ stamp[p] # 0
    /\ \E j \in WithPath(p) \ DOMAIN archive[p] :
          /\ files[j] # NotThere
          /\ archive' = [archive EXCEPT ![p] =
                [n \in DOMAIN @ \cup {j} |-> IF n = j THEN files[j] ELSE @[n]]]
    /\ UNCHANGED <<diagPc, bypass, creating, linked, results, traced, files, written, zipVars,
                   failed, overlapped>>

\* a file is gone, or the archive cannot be created or added to: what has its
\* name is removed, unless it was not created
ZipStops(p) ==
    /\ diagPc[p] = "zip"
    /\ \/ /\ stamp[p] # 0 /\ \E j \in WithPath(p) \ DOMAIN archive[p] : files[j] = NotThere
          /\ UNCHANGED broke
       \/ /\ stamp[p] = 0 \/ WithPath(p) \ DOMAIN archive[p] # {}
          /\ broke' = [broke EXCEPT ![p] = TRUE]
    /\ zips' = [s \in Seconds |-> IF stamp[p] = s THEN NotThere ELSE zips[s]]
    /\ zipLinked' = [q \in Reporters |-> zipLinked[q] /\ stamp[q] # stamp[p]]
    /\ archive' = [archive EXCEPT ![p] = NoResults]
    /\ failed' = [failed EXCEPT ![p] = TRUE]
    /\ diagPc' = [diagPc EXCEPT ![p] = "clean"]
    /\ UNCHANGED <<bypass, creating, linked, results, traced, files, written, stamp, overlapped>>

\* the errors of the two Close calls, which write the last of it, are ignored
ZipEnds(p) ==
    /\ diagPc[p] = "zip" /\ stamp[p] # 0 /\ WithPath(p) \subseteq DOMAIN archive[p]
    /\ zips' \in {zips, [s \in Seconds |-> IF stamp[p] = s /\ zipLinked[p]
                                            THEN zips[s] \cup {p} ELSE zips[s]]}
    /\ written' = [written EXCEPT ![p] = TRUE]
    /\ failed' = [failed EXCEPT ![p] = \E j \in DOMAIN results[p] : ~results[p][j].ok]
    /\ diagPc' = [diagPc EXCEPT ![p] = "clean"]
    /\ UNCHANGED <<bypass, creating, linked, results, traced, files, archive, stamp, zipLinked,
                   broke, overlapped>>

\* the deferred removals, by name: what is removed may be another command's;
\* the mutant leaves what failed jobs have written
RemovedOfGood(p) == {j \in WithPath(p) : results[p][j].ok}
Removed(p) == WithPath(p)

Clean(p) ==
    /\ diagPc[p] = "clean"
    /\ files' = [n \in Names |-> IF n \in Removed(p) THEN NotThere ELSE files[n]]
    /\ linked' = [q \in Reporters |-> linked[q] /\ diagPc[q] \notin Removed(p)]
    /\ diagPc' = [diagPc EXCEPT ![p] = "returned"]
    /\ UNCHANGED <<bypass, creating, results, traced, archive, written, zipVars, failed,
                   overlapped>>

DiagNext == \E p \in Reporters :
    \/ Find(p) \/ Trace(p) \/ CreateFile(p) \/ CreateFails(p) \/ WriteFile(p) \/ WriteFails(p)
    \/ CreateZip(p) \/ ZipFile(p) \/ ZipStops(p) \/ ZipEnds(p) \/ Clean(p)

DiagSpec == DiagInit /\ [][DiagNext]_diagVars

-----------------------------------------------------------------------------
Failed(p) == {j \in DOMAIN results[p] : ~results[p][j].ok}

(* A command leaves an archive or returns an error.  What it says of its jobs is
   true, and no job that ended well is left out, also if others overlap, which
   may take its files away.  If it ran alone only an archive that could not be
   written makes it fail so, the archive has exactly what its own jobs have
   collected, and of its files only a log or a report whose collection broke off
   may stay.  What it wrote is the archive of that name, although it may be cut
   short by the last write, unless another command had the same second
   (RunDiagnostic, CreateDiagnosticZipFile).                                 *)
ArchiveIsHonest ==
    /\ \A p \in Reporters : diagPc[p] = "returned" =>
          /\ written[p] =>
                /\ \A j \in DOMAIN results[p] \ Failed(p) : j \in DOMAIN archive[p]
                /\ failed[p] = (Failed(p) # {})
                /\ \A s \in Seconds : (\A q \in Reporters : stamp[q] = s <=> q = p) =>
                      zips[s] \in {{}, {p}}
          /\ ~written[p] => failed[p] /\ archive[p] = NoResults
          /\ ~overlapped[p] /\ DOMAIN results[p] # {} =>
                /\ written[p] \/ broke[p]
                /\ \A j \in DOMAIN archive[p] :
                      IF j \in Failed(p) THEN archive[p][j] \subseteq {p}
                                         ELSE archive[p][j] = {p}
    /\ (\A p \in Reporters : diagPc[p] = "returned" /\ ~overlapped[p]) =>
          \A n \in Names : files[n] # NotThere =>
              n \in {"logs", "report"} /\ \E p \in Reporters : n \in Failed(p)
=============================================================================
