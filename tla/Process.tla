------------------------------- MODULE Process -------------------------------
(***************************************************************************)
(* What `process` says and changes of the operating system's process: its  *)
(* directory, its mask for new files, its user and group, its environment, *)
(* the child it signals, the bindings and libraries it has loaded.  The    *)
(* directory and the mask are also those of the threads of the pool, which *)
(* make files while JavaScript goes on.                                    *)
(***************************************************************************)
EXTENDS Integers, Sequences

CONSTANTS Dirs, Masks,      \* directories; masks other than 0, which lets all through
          Ids, Names,       \* of users and groups; a function from names to them
          Keys, Texts,      \* of the environment
          Signals, Nameless,\* that may kill the child; those of them without a name
          Builtins, Libs,   \* modules in the binary, and libraries
          MaxSteps,         \* bound: calls of the program in a behaviour
          MaxArgs,          \* bound: arguments on the command line
          Absent

VARIABLES os,        \* the process: dir, mask, uid, gid, env, and errno in its main thread
          reading,   \* the mask umask() has put away while it reads it, or Absent
          jobs,      \* files that asynchronous calls shall make
          child,     \* a process spawned: its end, and what JavaScript knows of it
          modules,   \* bindings made and names asked for; libraries in memory;
                     \* how often each was initialised
          reply,     \* of the last call
          wanted,    \* history: what the program has set
          steps,
          argv,      \* the command line, as given and as ParseArgs leaves it
          given,
          i,         \* argument ParseArgs looks at; option_end_index at its end
          opts,      \* what the options have set
          stage      \* "parse", "v8", "run" or "exit"

processVars == <<os, reading, jobs, child, modules, reply, wanted, steps>>

\* Every code of the system has its name, and any other number none.
Errnos == {"EPERM", "ESRCH", "ENOENT"}
errno_string(e) == IF e \in Errnos THEN e ELSE ""
signo_string(s) == IF s \in Signals \ Nameless THEN s ELSE ""

ErrnoException(e, call) == [thrown |-> errno_string(e), call |-> call]
Thrown(why) == [thrown |-> why, call |-> ""]
Returned(v) == [value |-> v]

\* JavaScript calls: not while umask() is between its two calls of umask(2).
Call == reading = Absent /\ steps < MaxSteps /\ steps' = steps + 1

\* A call that changes nothing.
Says(answer) == /\ Call /\ reply' = answer
                /\ UNCHANGED <<os, reading, jobs, child, modules, wanted>>

\* A call that sets a field of the process, and the program knows it has.
Sets(field, v, answer) ==
    /\ Call /\ reply' = answer
    /\ os' = [os EXCEPT ![field] = v]
    /\ wanted' = [wanted EXCEPT ![field] = v]
    /\ UNCHANGED <<reading, child, modules>>
-----------------------------------------------------------------------------
(* The directory and the mask.                                             *)

\* The jobs not done meet what the program sets now.
Meet(field, v) == jobs' = [k \in 1..Len(jobs) |->
                      IF jobs[k].made = Absent THEN [jobs[k] EXCEPT ![field] = @ \cup {v}]
                                               ELSE jobs[k]]

Chdir(dir) == \/ Sets("dir", dir, Returned(Absent)) /\ Meet("dir", dir)
              \/ Says([thrown |-> "ENOENT", call |-> "uv_chdir"])

Cwd == Says(Returned(os.dir))

\* umask with a number, or a text of octal digits.
SetMask(m) == Sets("mask", m, Returned(os.mask)) /\ Meet("mask", m)
BadMask == Says(Thrown("invalid octal string"))

\* umask(): the system tells the mask only to whom gives it another one.
ReadMask ==
    /\ Call
    /\ reading' = os.mask
    /\ os' = [os EXCEPT !.mask = 0]
    /\ UNCHANGED <<jobs, child, modules, reply, wanted>>

\* Mutant: the mask that was read is not put back.
PutBackNot ==
    /\ reading # Absent
    /\ reading' = Absent
    /\ reply' = Returned(reading)
    /\ UNCHANGED <<os, jobs, child, modules, wanted, steps>>

PutBack ==
    /\ reading # Absent
    /\ os' = [os EXCEPT !.mask = reading]
    /\ reading' = Absent
    /\ reply' = Returned(reading)
    /\ UNCHANGED <<jobs, child, modules, wanted, steps>>

\* An asynchronous call is to make a file of a name without a directory.  `dir`
\* and `mask` are a history: what the program has had set since.
Issue ==
    /\ Call
    /\ jobs' = Append(jobs, [dir |-> {wanted.dir}, mask |-> {wanted.mask}, made |-> Absent])
    /\ reply' = Returned(Absent)
    /\ UNCHANGED <<os, reading, child, modules, wanted>>

\* A thread of the pool makes it, where and as the process is then.
Make(k) ==
    /\ jobs[k].made = Absent
    /\ jobs' = [jobs EXCEPT ![k].made = [dir |-> os.dir, mask |-> os.mask,
                                         bare |-> reading # Absent]]
    /\ UNCHANGED <<os, reading, child, modules, reply, wanted, steps>>
-----------------------------------------------------------------------------
(* Users and groups; children.                                             *)

GetUid == Says(Returned(os.uid))
GetGid == Says(Returned(os.gid))

\* A call of the system is refused.
Refused(code, answer) ==
    /\ Call /\ reply' = answer
    /\ os' = [os EXCEPT !.errno = code]
    /\ UNCHANGED <<reading, jobs, child, modules, wanted>>

\* The look-up of a name returns its error, if it has one, but it is errno that
\* is read, and it may be that of any call before.
SetId(field, call, lookup, which) ==
    IF which \in Ids \cup DOMAIN Names
    THEN LET n == IF which \in Ids THEN which ELSE Names[which]
         IN  \/ Sets(field, n, Returned(Absent)) /\ UNCHANGED jobs
             \/ Refused("EPERM", ErrnoException("EPERM", call))
    ELSE Says(IF os.errno = Absent THEN Thrown("id does not exist")
              ELSE ErrnoException(os.errno, lookup))

SetUid(which) == SetId("uid", "setuid", "getpwnam_r", which)
SetGid(which) == SetId("gid", "setgid", "getgrnam_r", which)

\* process.kill answers -1 for a child that is gone.
Kill(s) ==
    \/ /\ child.end = Absent
       /\ Call /\ reply' = Returned(Absent)
       /\ child' = [child EXCEPT !.end = s]
       /\ UNCHANGED <<os, reading, jobs, modules, wanted>>
    \/ child.reaped /\ Refused("ESRCH", Returned(-1))

\* The child ends by itself.
Exits == /\ child.end = Absent
         /\ child' = [child EXCEPT !.end = "exit"]
         /\ UNCHANGED <<os, reading, jobs, modules, reply, wanted, steps>>

\* It is waited for, and its object told: by an empty text that no signal has
\* ended it, and then the status, 0 for one killed, is its exit code.
OnExit ==
    /\ child.end # Absent /\ ~child.reaped /\ reading = Absent
    /\ LET signal == IF child.end = "exit" THEN "" ELSE signo_string(child.end)
       IN  child' = [child EXCEPT !.reaped = TRUE,
                                  !.exitCode = IF signal = "" THEN 0 ELSE Absent,
                                  !.signalCode = IF signal = "" THEN Absent ELSE signal]
    /\ UNCHANGED <<os, reading, jobs, modules, reply, wanted, steps>>
-----------------------------------------------------------------------------
(* process.env.                                                            *)

EnvGetter(key) == Says(Returned(os.env[key]))
EnvQuery(key) == Says(Returned(os.env[key] # Absent))
EnvEnumerator == Says(Returned({key \in Keys : os.env[key] # Absent}))

EnvSetter(key, text) ==
    Sets("env", [os.env EXCEPT ![key] = text], Returned(text)) /\ UNCHANGED jobs

EnvDeleter(key) ==
    Sets("env", [os.env EXCEPT ![key] = Absent], Returned(os.env[key] # Absent))
      /\ UNCHANGED jobs
-----------------------------------------------------------------------------
(* Bindings and libraries.                                                 *)

\* process.binding(name): made when it is first asked for.
Binding(name) ==
    IF name \in modules.cache THEN Says(Returned(name))
    ELSE /\ Call
         /\ modules' = IF name \in Builtins
                       THEN [modules EXCEPT !.loadList = @ \cup {name},
                                            !.registered[name] = @ + 1,
                                            !.cache = @ \cup {name}]
                       ELSE [modules EXCEPT !.loadList = @ \cup {name}]
         /\ reply' = IF name \in Builtins THEN Returned(name) ELSE Thrown("No such module")
         /\ UNCHANGED <<os, reading, jobs, child, wanted>>

\* process.dlopen: a library of another version stays open, uninitialised; a
\* good one is initialised each time.
DLOpen(lib) ==
    \/ \E why \in {"Unable to load shared library", "Module entry point not found"} :
         Says(Thrown(why))
    \/ /\ Call
       /\ \/ /\ modules' = [modules EXCEPT !.open = @ \cup {lib}]
             /\ reply' = Thrown("Module version mismatch")
          \/ /\ modules' = [modules EXCEPT !.open = @ \cup {lib}, !.registered[lib] = @ + 1]
             /\ reply' = Returned(Absent)
       /\ UNCHANGED <<os, reading, jobs, child, wanted>>
-----------------------------------------------------------------------------
ProcessInit ==
    /\ os = [dir |-> CHOOSE dir \in Dirs : TRUE, mask |-> CHOOSE m \in Masks : TRUE,
             uid |-> CHOOSE n \in Ids : TRUE, gid |-> CHOOSE n \in Ids : TRUE,
             errno |-> Absent, env |-> [key \in Keys |-> Absent]]
    /\ wanted = os
    /\ reading = Absent /\ jobs = <<>> /\ steps = 0
    /\ child = [end |-> Absent, reaped |-> FALSE, exitCode |-> Absent, signalCode |-> Absent]
    /\ modules = [cache |-> {}, loadList |-> {}, open |-> {},
                  registered |-> [m \in Builtins \cup Libs |-> 0]]
    /\ reply = Returned(Absent)

ProcessNext ==
    \/ \E dir \in Dirs : Chdir(dir)
    \/ Cwd \/ BadMask \/ ReadMask \/ PutBack \/ Issue \/ GetUid \/ GetGid
    \/ \E m \in Masks \cup {0} : SetMask(m)
    \/ \E k \in 1..Len(jobs) : Make(k)
    \/ \E which \in Ids \cup DOMAIN Names \cup {"nobody"} : SetUid(which) \/ SetGid(which)
    \/ \E s \in Signals : Kill(s)
    \/ Exits \/ OnExit
    \/ \E key \in Keys : EnvGetter(key) \/ EnvQuery(key) \/ EnvDeleter(key)
    \/ \E key \in Keys, text \in Texts : EnvSetter(key, text)
    \/ EnvEnumerator
    \/ \E name \in Builtins \cup {"none"} : Binding(name)
    \/ \E lib \in Libs : DLOpen(lib)
-----------------------------------------------------------------------------
ProcessTypeOK ==
    /\ os \in [dir : Dirs, mask : Masks \cup {0}, uid : Ids, gid : Ids,
               errno : Errnos \cup {Absent}, env : [Keys -> Texts \cup {Absent}]]
    /\ reading \in Masks \cup {0, Absent}
    /\ child.end \in Signals \cup {"exit", Absent}
    /\ modules.cache \subseteq Builtins /\ modules.open \subseteq Libs
    /\ steps \in 0..MaxSteps

\* A file that an asynchronous call makes is made in a directory, and with a
\* mask, that the program had set at some time between the call and the making;
\* but the mask is 0 if it falls between the two calls of umask(2) that umask()
\* makes to read it, and no longer than that.
MadeAsSet ==
    \A k \in 1..Len(jobs) : LET job == jobs[k] IN
      job.made # Absent => /\ job.made.dir \in job.dir
                           /\ \/ job.made.mask \in job.mask
                              \/ job.made.bare /\ job.made.mask = 0

\* Between calls the process is as the program has last set it, refused calls
\* aside; a binding is initialised once however often it is asked for; and of a
\* child that is gone the program knows what has ended it.
AsLastSet ==
    /\ reading = Absent => os = [wanted EXCEPT !.errno = os.errno]
    /\ \A m \in Builtins : modules.registered[m] = IF m \in modules.cache THEN 1 ELSE 0
    /\ modules.cache \subseteq modules.loadList
    /\ child.reaped => IF child.end = "exit" THEN child.exitCode = 0
                       ELSE child.signalCode = child.end /\ child.exitCode = Absent

-----------------------------------------------------------------------------
(***************************************************************************)
(* How node reads its command line: first its own options are taken out,   *)
(* up to the script, then V8 gets what is left of them, and the program    *)
(* gets the rest as process.argv.                                          *)
(***************************************************************************)
lineVars == <<argv, given, i, opts, stage>>

\* Arguments by what the parser tells apart; `n` is an option of V8, `word` the
\* name of a script or an argument of it.
DebugOpts == {"--debug", "--debug-brk", "--debug=port", "--debug-brk=port",
              "--debug=0", "--debugger"}
EvalOpts == {"-e", "-pe"}
PrintAndExit == {"-v", "--vars", "-h"}
Own == DebugOpts \cup EvalOpts \cup PrintAndExit \cup {"-p", "--max-stack-size=n", "--v8-options"}
Dashed == Own \cup {"--n"}
Arguments == Dashed \cup {"word"}

\* --debug and its forms: a port must be a number from 1025 to 65535.
ParseDebugOpt(arg) ==
    [opts EXCEPT !.debug = TRUE,
                 !.wait = @ \/ arg \in {"--debug-brk", "--debug-brk=port"},
                 !.port = IF arg \in {"--debug=port", "--debug-brk=port"} THEN "port" ELSE @]
BadDebugOpt(arg) == arg \in {"--debug=0", "--debugger"}

Blank(k) == [argv EXCEPT ![k] = ""]

\* One turn of ParseArgs.
ParseArgs ==
    /\ stage = "parse" /\ i <= Len(argv)
    /\ LET arg == argv[i] IN
       \/ /\ arg \in DebugOpts
          /\ IF BadDebugOpt(arg) THEN stage' = "exit" /\ UNCHANGED <<argv, opts, i>>
             ELSE /\ opts' = ParseDebugOpt(arg) /\ argv' = Blank(i) /\ i' = i + 1
                  /\ UNCHANGED stage
       \/ arg \in PrintAndExit /\ stage' = "exit" /\ UNCHANGED <<argv, opts, i>>
       \/ /\ arg = "--max-stack-size=n"
          /\ opts' = [opts EXCEPT !.stack = TRUE] /\ argv' = Blank(i) /\ i' = i + 1
          /\ UNCHANGED stage
       \/ /\ arg \in EvalOpts
          /\ IF i = Len(argv) THEN stage' = "exit" /\ UNCHANGED <<argv, opts, i>>
             ELSE /\ opts' = [opts EXCEPT !.eval = i + 1, !.print = @ \/ arg = "-pe"]
                  /\ argv' = Blank(i) /\ i' = i + 2
                  /\ UNCHANGED stage
       \/ /\ arg = "-p"
          /\ opts' = [opts EXCEPT !.print = TRUE] /\ argv' = Blank(i) /\ i' = i + 1
          /\ UNCHANGED stage
       \/ /\ arg = "--v8-options"
          /\ argv' = [argv EXCEPT ![i] = "--help"] /\ i' = i + 1
          /\ UNCHANGED <<opts, stage>>
       \/ arg = "--n" /\ i' = i + 1 /\ UNCHANGED <<argv, opts, stage>>
       \/ arg = "word" /\ stage' = "v8" /\ UNCHANGED <<argv, opts, i>>
    /\ UNCHANGED given

ParseEnds == /\ stage = "parse" /\ i > Len(argv) /\ stage' = "v8"
             /\ UNCHANGED <<argv, given, i, opts>>

\* Init: V8 gets the arguments before the script, and two more if the program
\* shall wait for a debugger.
V8Args == SubSeq(argv, 1, i - 1)
            \o (IF opts.wait THEN <<"--expose_debug_as", "v8debug">> ELSE <<>>)
Init2 == /\ stage = "v8"
         /\ opts' = [opts EXCEPT !.v8 = V8Args]
         /\ stage' = "run"
         /\ UNCHANGED <<argv, given, i>>

\* process.argv but for the name of the program, and process._eval.
ProcessArgv == SubSeq(argv, i, Len(argv))
Eval == IF opts.eval = 0 THEN "" ELSE argv[opts.eval]

LineStart == /\ argv = given /\ i = 1 /\ stage = "parse"
             /\ opts = [debug |-> FALSE, wait |-> FALSE, port |-> "5858", stack |-> FALSE,
                        eval |-> 0, print |-> FALSE, v8 |-> <<>>]

LineInit == given \in UNION {[1 .. n -> Arguments] : n \in 0 .. MaxArgs} /\ LineStart

LineNext == ParseArgs \/ ParseEnds \/ Init2
-----------------------------------------------------------------------------
LineTypeOK == /\ Len(argv) = Len(given) /\ i \in 1..Len(given) + 1
              /\ stage \in {"parse", "v8", "run", "exit"}
              /\ opts.eval \in 0..Len(given)

\* Argument k is the text of an -e: an odd number of them stand just before it.
IsEvalText(k) == \E n \in 1..k - 1 :
    /\ n % 2 = 1
    /\ \A m \in k - n..k - 1 : given[m] \in EvalOpts
    /\ k - n > 1 => given[k - n - 1] \notin EvalOpts

\* The script is the first word that no -e takes.  The program gets it and what
\* stands after it, untouched; node has taken all of its own options that stand
\* before it and none after; V8 gets the others, in order and unchanged.
LineUnderstood ==
    stage = "run" =>
      LET end == CHOOSE k \in 1..Len(given) + 1 :
                   /\ k = Len(given) + 1 \/ (given[k] = "word" /\ ~IsEvalText(k))
                   /\ \A m \in 1..k - 1 : given[m] # "word" \/ IsEvalText(m)
          before == {k \in 1..end - 1 : ~IsEvalText(k)}
          sees(options) == \E k \in before : given[k] \in options
      IN  /\ ProcessArgv = SubSeq(given, end, Len(given))
          /\ opts.debug = sees(DebugOpts)
          /\ opts.wait = sees({"--debug-brk", "--debug-brk=port"})
          /\ opts.print = sees({"-p", "-pe"})
          /\ opts.stack = sees({"--max-stack-size=n"})
          /\ sees(EvalOpts) = (opts.eval # 0)
          /\ opts.eval # 0 => /\ IsEvalText(opts.eval) /\ Eval = given[opts.eval]
                              /\ \A k \in before : given[k] \in EvalOpts => k < opts.eval
          /\ ~sees(PrintAndExit) /\ ~sees({"--debug=0", "--debugger"})
          /\ \A k \in before : opts.v8[k] = (CASE given[k] = "--n" -> "--n"
                                               [] given[k] = "--v8-options" -> "--help"
                                               [] OTHER -> "")

=============================================================================
