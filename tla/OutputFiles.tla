----------------------------- MODULE OutputFiles ------------------------------
(***************************************************************************)
(* output/writers.py, continuous_write.py, the writers' side of            *)
(* sites/output_dispatch.py and runtime/chat_pipeline.py: runs that write  *)
(* their records to files which earlier runs, or others, have left behind. *)
(* Any run may be killed, or fail, inside a line.                          *)
(***************************************************************************)
EXTENDS Integers, SequencesExt, FiniteSetsExt

CONSTANTS
    Names,         \* the output names: [format, path], the path by the chat's title
    Titles,        \* the titles a chat may have
    OutputLists,   \* the lists of names a run may be given
    Leftovers,     \* what others left in a file: sequences of lines
    MaxFileRuns,   \* bound: runs
    MaxLines       \* bound: records, over all runs

VARIABLES
    present,    \* the paths at which there is a file
    disk,       \* the lines by path: [of, ended]; of is a record, or Broken
    task,       \* the run
    opened,     \* the names whose file this run has opened
    record,     \* the last record, over all runs
    due,       \* the writers that have still to open, or to write this record
    kept        \* history: the records of each file since it was last made anew

diskVars == <<present, disk, task, opened, record, due, kept>>

Broken == -1    \* part of a record, or two in one line
Paths == {n.path[t] : n \in Names, t \in Titles}
Down == [pc |-> "down", outcome |-> "none", writers |-> <<>>, overwrite |-> TRUE, verify |-> FALSE,
         title |-> "none", from |-> 0, runs |-> 0]

RawPaths == {n.path[t] : n \in {m \in Names : m.format = "jsonl"}, t \in Titles}

\* The records of a file.
Records(file) ==
    FoldLeft(LAMBDA records, line : IF line.of = Broken THEN records ELSE Append(records, line.of), <<>>, file)

FilesInit ==
    /\ present \in SUBSET Paths
    /\ disk \in [Paths -> Leftovers] /\ \A p \in Paths \ present : disk[p] = <<>>
    /\ kept = [p \in Paths |-> Records(disk[p])]
    /\ task = Down /\ opened = {} /\ record = 0 /\ due = <<>>

-----------------------------------------------------------------------------
(* Names and paths.                                                        *)

Varies(name) == Cardinality({name.path[t] : t \in Titles}) > 1

\* A template is a place of its own as long as the title is not known.
Place(name, title, pending) ==
    IF pending /\ Varies(name) THEN <<"template", name>> ELSE <<"path", name.path[title]>>

\* _register_output_path(): the first name of a place stands for it ...
Taken(writers, name, title, pending) ==
    \E k \in DOMAIN writers : Place(writers[k], title, pending) = Place(name, title, pending)

Distinct(names, title, pending) ==
    FoldLeft(LAMBDA writers, name : IF Taken(writers, name, title, pending) THEN writers ELSE Append(writers, name),
             <<>>, names)

\* ... and two formats cannot share one.
Conflict(names, title, pending) ==
    \E j, k \in DOMAIN names :
        /\ Place(names[j], title, pending) = Place(names[k], title, pending)
        /\ names[j].format # names[k].format

\* What others left are whole lines with records of their own, in order, but for the last,
\* which may be torn.
LeftInOrder ==
    /\ Leftovers \subseteq Seq([of : Int, ended : BOOLEAN]) /\ <<>> \in Leftovers
    /\ \A file \in Leftovers : \A k \in DOMAIN file :
          /\ file[k].of <= 0
          /\ k < Len(file) => file[k].ended
          /\ file[k].of = Broken => ~file[k].ended
          /\ \A j \in 1..(k - 1) : file[k].of = Broken \/ file[j].of < file[k].of

\* Who writes text where a raw file may be, asks for both at once.
TextBesideRaw ==
    /\ OutputLists \subseteq Seq(Names)
    /\ \A names \in OutputLists, title \in Titles : \A k \in DOMAIN names :
          names[k].format # "jsonl" /\ names[k].path[title] \in RawPaths => Conflict(names, title, FALSE)

ASSUME FilesAssumption == MaxFileRuns \in Nat /\ MaxLines \in Nat /\ LeftInOrder /\ TextBesideRaw

Formats(names) == {names[k].format : k \in DOMAIN names}

\* validate_verification() without a checkpoint, capture_paths().
Verifiable(names, overwrite) ==
    /\ overwrite
    /\ Formats(names) = {"jsonl", "txt"} /\ Len(names) = 2

-----------------------------------------------------------------------------
(* A run.                                                                  *)

\* _configure_output_writer(): writers are attached, no file is touched.
StartRun(names, overwrite, verify, title, pending) ==
    LET writers == Distinct(names, title, pending) IN
    /\ task.pc = "down" /\ task.runs < MaxFileRuns
    /\ opened' = {} /\ due' = <<>>
    /\ task' = IF Conflict(names, title, pending) \/ (verify /\ ~Verifiable(writers, overwrite))
               THEN [Down EXCEPT !.runs = task.runs + 1, !.outcome = "refused"]
               ELSE [pc |-> "ready", outcome |-> "none", writers |-> writers,
                     overwrite |-> overwrite, verify |-> verify, title |-> title,
                     from |-> record, runs |-> task.runs + 1]
    /\ UNCHANGED <<present, disk, record, kept>>

End(outcome) == task' = [task EXCEPT !.pc = "down", !.outcome = outcome]

\* _resolve_writer_paths(), once the title is known.
Resolved(names, title) == Distinct(names, title, FALSE)

\* emit() of the first record: nothing is opened unless all places are clear.
FirstRecord ==
    /\ task.pc = "ready" /\ opened = {} /\ record < MaxLines
    /\ record' = record + 1
    /\ IF Conflict(task.writers, task.title, FALSE)
       THEN End("failed") /\ UNCHANGED due
       ELSE LET writers == Resolved(task.writers, task.title) IN
            task' = [task EXCEPT !.pc = "open", !.writers = writers] /\ due' = writers
    /\ UNCHANGED <<present, disk, opened, kept>>

NextRecord ==
    /\ task.pc = "ready" /\ opened # {} /\ record < MaxLines
    /\ record' = record + 1
    /\ task' = [task EXCEPT !.pc = "write"] /\ due' = task.writers
    /\ UNCHANGED <<present, disk, opened, kept>>

Terminated(file) == Append(Front(file), [Last(file) EXCEPT !.ended = TRUE])
Unended(file) == file # <<>> /\ ~Last(file).ended

\* What a kill left of a record is taken for one.
RepairRaw_Terminates(file) == IF Unended(file) THEN Terminated(file) ELSE file

\* _repair_jsonl_final_line(), _repair_text_final_line().
RepairRaw(file) ==
    IF ~Unended(file) THEN file
    ELSE IF Last(file).of = Broken THEN Front(file) ELSE Terminated(file)
RepairText(file) == IF Unended(file) THEN Terminated(file) ELSE file

\* _open_writer(): a file that is new, or is to be replaced, is made empty; another
\* one is repaired.
Open ==
    /\ task.pc = "open" /\ due # <<>>
    /\ LET name == Head(due)
           path == name.path[task.title] IN
       /\ IF path \notin present \/ task.overwrite
          THEN /\ disk' = [disk EXCEPT ![path] = <<>>]
               /\ kept' = [kept EXCEPT ![path] = <<>>]
          ELSE /\ disk' = [disk EXCEPT ![path] =
                             IF name.format = "jsonl" THEN RepairRaw(@) ELSE RepairText(@)]
               /\ UNCHANGED kept
       /\ present' = present \cup {path} /\ opened' = opened \cup {name}
    /\ due' = Tail(due)
    /\ UNCHANGED <<task, record>>

AllOpen ==
    /\ task.pc = "open" /\ due = <<>>
    /\ task' = [task EXCEPT !.pc = "write"] /\ due' = task.writers
    /\ UNCHANGED <<present, disk, opened, record, kept>>

\* A directory or a file cannot be had; Chat.__next__() closes the chat.
OpenRefused ==
    /\ task.pc = "open" /\ due # <<>>
    /\ End("failed")
    /\ UNCHANGED <<present, disk, opened, record, due, kept>>

\* What comes after an unterminated line becomes part of it.
Written(file, line) ==
    IF Unended(file) THEN Append(Front(file), [of |-> Broken, ended |-> line.ended])
    ELSE Append(file, line)

Put(path, line) ==
    /\ disk' = [disk EXCEPT ![path] = Written(@, line)]
    /\ kept' = IF line.of = Broken THEN kept ELSE [kept EXCEPT ![path] = Append(@, line.of)]

Write ==
    /\ task.pc = "write" /\ due # <<>>
    /\ Put(Head(due).path[task.title], [of |-> record, ended |-> TRUE])
    /\ due' = Tail(due)
    /\ UNCHANGED <<present, task, opened, record>>

RecordDone ==
    /\ task.pc = "write" /\ due = <<>>
    /\ task' = [task EXCEPT !.pc = "ready"]
    /\ UNCHANGED <<present, disk, opened, record, due, kept>>

\* A kill, or an error of the file system, inside a line: what reached the file of it,
\* at once or when the writer was closed.
WriteStops(outcome) ==
    /\ task.pc = "write" /\ due # <<>>
    /\ \E line \in {[of |-> Broken, ended |-> FALSE]} \cup [of : {record}, ended : BOOLEAN] :
         Put(Head(due).path[task.title], line)
    /\ End(outcome)
    /\ UNCHANGED <<present, opened, record, due>>

Kill ==
    /\ task.pc # "down"
    /\ End("killed")
    /\ UNCHANGED <<present, disk, opened, record, due, kept>>

\* The replay ends and the writers are closed; what was asked for is compared, but not
\* files that this run did not open.
FinishRun ==
    /\ task.pc = "ready"
    /\ End(IF task.verify
              /\ \E k \in DOMAIN task.writers :
                   /\ task.writers[k] \notin opened
                   /\ task.writers[k].path[task.title] \in present
           THEN "failed" ELSE "success")
    /\ UNCHANGED <<present, disk, opened, record, due, kept>>

FilesNext ==
    \/ \E names \in OutputLists, overwrite, verify, pending \in BOOLEAN, title \in Titles :
         StartRun(names, overwrite, verify, title, pending)
    \/ FirstRecord \/ NextRecord \/ Open \/ AllOpen \/ OpenRefused \/ Write \/ RecordDone
    \/ \E outcome \in {"killed", "failed"} : WriteStops(outcome)
    \/ Kill \/ FinishRun

FilesSpec == FilesInit /\ [][FilesNext]_diskVars

-----------------------------------------------------------------------------
(* Properties.                                                             *)

\* Whatever the runs before it left, a file has every record that was put there since
\* it was last made anew, once and in order; only its last line can be unterminated, and
\* a raw file that is being written to is nothing but whole records.
AppendKeepsRecords ==
    \A p \in Paths :
        LET file == disk[p]
            before == 1..(Len(file) - 1)
        IN  /\ Records(file) = kept[p]
            /\ \A k \in 1..(Len(kept[p]) - 1) : kept[p][k] < kept[p][k + 1]
            /\ \A k \in before : file[k].ended /\ (p \in RawPaths => file[k].of # Broken)

\* A run that succeeds with a new set of files leaves its own records in each, the same
\* in all of them, so that a raw and a text file agree when they are compared.
OwnRecords ==
    task.pc = "down" /\ task.outcome = "success" /\ (task.overwrite \/ task.verify) =>
        \A name \in opened :
            disk[name.path[task.title]] =
              [k \in 1..(record - task.from) |-> [of |-> task.from + k, ended |-> TRUE]]

\* Over runs that append and runs that replace, names that turn out to be one file,
\* kills and failures inside a line: nothing that was written is lost, doubled or
\* mixed (writers.py:27-94, continuous_write.py:131-152, output_dispatch.py:126-159).
OutputsSound == AppendKeepsRecords /\ OwnRecords
=============================================================================
