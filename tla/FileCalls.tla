------------------------------ MODULE FileCalls ------------------------------
(***************************************************************************)
(* The binding of `fs`: every function checks its arguments and then makes *)
(* one call of the operating system, in a thread of the pool and answered  *)
(* through a callback if it was given one, at once otherwise.  The         *)
(* immediate form takes the code of a failure from the last error of the   *)
(* loop, which all calls share.  What the calls do to the files is the     *)
(* affair of the operating system: each may succeed or fail.               *)
(***************************************************************************)
EXTENDS Integers, Sequences

CONSTANTS MaxCalls,       \* bound: calls one behaviour makes
          Codes,          \* of errors the operating system gives
          OK, NoPath, Nothing

VARIABLES calls,          \* each with its type, form, stage, and what became of it
          lastError,      \* of the loop (uv_last_error)
          held            \* references calls under way have on the loop

callVars == <<calls, lastError, held>>

\* By what the callback gets beside the error.
NoData == {"close", "rename", "unlink", "rmdir", "mkdir", "ftruncate", "fsync", "fdatasync",
           "link", "symlink", "chmod", "fchmod", "chown", "fchown"}
Times == {"utime", "futime"}
Counted == {"open", "sendfile", "write", "read"}
Stats == {"stat", "lstat", "fstat"}
Types == NoData \cup Times \cup Counted \cup Stats \cup {"readlink", "readdir"}

\* The error object: the name of the code, and what else it was made with.
UVException(code, syscall, msg, path) ==
    [code |-> code, syscall |-> syscall, path |-> path,
     message |-> IF msg = Nothing THEN code ELSE msg]

NoError == [code |-> OK]

\* What the operating system can answer to call i: a result, -1 for a failure
\* with its code, and the memory it points to.
Outcomes(i, type) ==
    [result : {-1}, code : Codes, ptr : {Nothing}]
      \cup {[result |-> n, code |-> OK,
             ptr |-> CASE type = "readdir" -> [k \in 1..n |-> <<i, k>>]
                       [] type \in Stats \cup {"readlink"} -> <<i>>
                       [] OTHER -> Nothing] :
              n \in IF type \in Counted \cup {"readdir"} THEN {0, 2} ELSE {0}}

\* What a call hands over when it has not failed: the strings of a directory
\* one after the other, the structure of a file, the target of a link.
BuildStatsObject(ptr) == ptr
Names(ptr, n) == [k \in 1..n |-> ptr[k]]
Value(type, req) ==
    CASE type \in NoData \cup Times -> Nothing
      [] type \in Counted -> req.result
      [] type \in Stats -> BuildStatsObject(req.ptr)
      [] type = "readlink" -> req.ptr
      [] type = "readdir" -> Names(req.ptr, req.result)

NoReq == [result |-> 0, code |-> OK, ptr |-> Nothing]
NewCall(type, form, path, stage, req, error, value) ==
    [type |-> type, form |-> form, path |-> path, stage |-> stage, req |-> req,
     error |-> error, value |-> value]

ThrowBadArgs(type) ==
    /\ calls' = Append(calls, NewCall(type, "sync", NoPath, "refused", NoReq, NoError, Nothing))
    /\ UNCHANGED <<lastError, held>>

\* ASYNC_CALL: the request keeps the path for its error and holds the loop.
AsyncCall(type, path) ==
    /\ calls' = Append(calls, NewCall(type, "async", path, "queued", NoReq, NoError, Nothing))
    /\ held' = held + 1
    /\ UNCHANGED lastError

\* The last error of the loop after an immediate call: readlink leaves it as it
\* was, sendfile sets it also when bytes were sent, to an errno of any time.
LastErrors(type, req) ==
    CASE type = "readlink" -> {lastError}
      [] type = "sendfile" /\ req.result > 0 -> Codes \cup {OK}
      [] OTHER -> {IF req.result < 0 THEN req.code ELSE lastError}

\* SYNC_CALL: throws with the last error of the loop, or returns the value.
SyncCall(type, path) ==
    \E req \in Outcomes(Len(calls) + 1, type) :
        /\ lastError' \in LastErrors(type, req)
        /\ calls' = Append(calls,
             IF req.result < 0
             THEN NewCall(type, "sync", path, "told", req,
                          UVException(lastError', type, Nothing, path), Nothing)
             ELSE NewCall(type, "sync", path, "told", req, NoError, Value(type, req)))
        /\ UNCHANGED held

\* Argument lists a program gives: the one that is asked for, with and without
\* a callback in its place, and one that is an argument short.
Fill(takes, at) == takes \o [k \in 1..at - Len(takes) |-> "string"]
ArgLists(takes, at) == {takes, Append(Fill(takes, at), "function"), SubSeq(takes, 1, Len(takes) - 1)}

Takes(args, takes) == /\ Len(args) >= Len(takes)
                      /\ \A k \in 1..Len(takes) : args[k] = takes[k]

\* A function of the binding: it wants arguments of the types `takes`, and the
\* form is asynchronous if there is a function in place `at`.
Binding(type, takes, at, syncPath, asyncPath) ==
    /\ Len(calls) < MaxCalls
    /\ \E args \in ArgLists(takes, at) :
         IF ~Takes(args, takes) THEN ThrowBadArgs(type)
         ELSE IF Len(args) > at /\ args[at + 1] = "function" THEN AsyncCall(type, asyncPath)
         ELSE SyncCall(type, syncPath)

OnPath(type, takes) == Binding(type, takes, Len(takes), "first", "first")
OnFd(type, takes) == Binding(type, takes, Len(takes), NoPath, NoPath)

Close == OnFd("close", <<"int">>)
Stat == OnPath("stat", <<"string">>)
LStat == OnPath("lstat", <<"string">>)
FStat == OnFd("fstat", <<"int">>)
Symlink == Binding("symlink", <<"string", "string">>, 3, "second", "first")
Link == OnPath("link", <<"string", "string">>)
ReadLink == OnPath("readlink", <<"string">>)
Rename == OnPath("rename", <<"string", "string">>)
Truncate == OnFd("ftruncate", <<"int", "int">>)
Fdatasync == OnFd("fdatasync", <<"int">>)
Fsync == OnFd("fsync", <<"int">>)
Unlink == OnPath("unlink", <<"string">>)
RMDir == OnPath("rmdir", <<"string">>)
MKDir == OnPath("mkdir", <<"string", "int">>)
SendFile == OnFd("sendfile", <<"int", "int", "int", "int">>)
ReadDir == OnPath("readdir", <<"string">>)
Open == OnPath("open", <<"string", "int", "int">>)
Write == Binding("write", <<"int", "buffer", "int", "int">>, 5, NoPath, NoPath)
Read == Binding("read", <<"int", "buffer", "int", "int">>, 5, NoPath, NoPath)
Chmod == OnPath("chmod", <<"string", "int">>)
FChmod == OnFd("fchmod", <<"int", "int">>)
Chown == OnPath("chown", <<"string", "int", "int">>)
FChown == OnFd("fchown", <<"int", "int", "int">>)
UTimes == OnPath("utime", <<"string", "number", "number">>)
FUTimes == OnFd("futime", <<"int", "number", "number">>)

\* The methods File::Initialize puts on the binding.
Methods == \/ Close \/ Open \/ Read \/ Fdatasync \/ Fsync \/ Rename \/ Truncate \/ RMDir
           \/ MKDir \/ SendFile \/ ReadDir \/ Stat \/ LStat \/ FStat \/ Link \/ Symlink
           \/ ReadLink \/ Unlink \/ Write \/ Chmod \/ FChmod \/ Chown \/ FChown
           \/ UTimes \/ FUTimes

\* A thread of the pool makes the call.
Execute(i) ==
    /\ calls[i].stage = "queued"
    /\ \E req \in Outcomes(i, calls[i].type) :
         calls' = [calls EXCEPT ![i].req = req, ![i].stage = "executed"]
    /\ UNCHANGED <<lastError, held>>

\* The callback: an error without the name of the call, which stands where its
\* message should; or no error and the value; or, for the times, nothing at all.
After(i) ==
    /\ calls[i].stage = "executed"
    /\ held' = held - 1
    /\ LET call == calls[i]
           error == UVException(call.req.code, Nothing, call.type, call.path)
       IN  calls' = [calls EXCEPT ![i].stage = "told",
                                  ![i].error = IF call.req.result = -1 THEN error ELSE NoError,
                                  ![i].value = IF call.req.result = -1 THEN Nothing
                                               ELSE Value(call.type, call.req)]
    /\ UNCHANGED lastError

CallInit == calls = <<>> /\ lastError = OK /\ held = 0
CallNext == Methods \/ \E i \in 1..Len(calls) : Execute(i) \/ After(i)
-----------------------------------------------------------------------------
Stages == {"refused", "queued", "executed", "told"}

CallTypeOK == /\ Len(calls) <= MaxCalls
              /\ \A i \in 1..Len(calls) : /\ calls[i].type \in Types
                                          /\ calls[i].stage \in Stages
                                          /\ calls[i].form \in {"sync", "async"}
                                          /\ calls[i].path \in {"first", "second", NoPath}
              /\ lastError \in Codes \cup {OK}
              /\ held \in 0..MaxCalls

\* Whatever the form, and whatever other calls do to the error of the loop, a
\* call that failed reports a failure, with a path it was given and its own code,
\* and one that has not its own result; but the code of an immediate readlink may
\* be that of any call before it, or none. The loop is held just for the calls
\* not reported yet.
OwnOutcome ==
    /\ \A i \in 1..Len(calls) : LET call == calls[i] IN
         call.stage = "told" =>
           IF call.req.code # OK
           THEN /\ call.error # NoError /\ call.error.path = call.path
                /\ call.form = "async" \/ call.type # "readlink"
                     => call.error.code = call.req.code
           ELSE /\ call.error = NoError
                /\ call.value = (CASE call.type \in NoData \cup Times -> Nothing
                                   [] call.type \in Counted -> call.req.result
                                   [] OTHER -> call.req.ptr)
    /\ held = Len(SelectSeq(calls, LAMBDA call : call.stage \in {"queued", "executed"}))

=============================================================================
