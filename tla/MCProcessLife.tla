--------------------------- MODULE MCProcessLife ---------------------------
EXTENDS ProcessLife

CONSTANTS p1, p2, p3

W(id, nohang, untraced) == [pid |-> id, WNOHANG |-> nohang, WUNTRACED |-> untraced]

Env(slots, pids, forkers, signals, handlers, threads, wants) ==
    [slots |-> slots, MAX_PID_VALUE |-> pids, forkers |-> forkers, signals |-> signals,
     handlers |-> handlers, threads |-> threads, threadsfork |-> FALSE, wants |-> wants]

Three == {init, p1, p2}

\* Everybody forks; pids are reused; processes wait for any child or for one
\* pid, and are killed.
Family == Env(Three, 4, Three, {"SIGKILL"}, {}, FALSE,
              {W(ANY, FALSE, FALSE), W(2, FALSE, FALSE), W(ANY, TRUE, FALSE)})

\* A shell: children are stopped and continued, and stops are waited for.
Jobs == Env(Three, 3, {init, p1}, {"SIGSTOP", "SIGCONT", "SIGKILL"}, {}, FALSE,
            {W(ANY, FALSE, FALSE), W(ANY, FALSE, TRUE), W(ANY, TRUE, TRUE)})

\* SIGCHLD is handled, ignored, or neither.
Handlers == Env(Three, 3, {init, p1}, {}, {"IGN", "HANDLER"}, FALSE,
                {W(ANY, FALSE, FALSE)})

\* Threads wait for the children of their process.
Threads == Env(Proc, 4, {init, p1}, {}, {}, TRUE, {W(ANY, FALSE, FALSE)})

All == {Family, Jobs, Handlers, Threads}
One == {Family}
=============================================================================
