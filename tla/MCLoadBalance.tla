---- MODULE MCLoadBalance ----
(* Two server queues; the second one holds the class of the first job. The  *)
(* first job is sent to the master queue, the second there or past it.      *)
EXTENDS LoadBalance

MCServer_names == <<1, 2>>
MCAccepts == <<{1, 2}, {2}>>

Scene(chooser, scan, stopped, second, kinds) ==
    [chooser |-> chooser, scan |-> scan, stopped |-> stopped, sent |-> <<{0}, second>>,
     events |-> kinds]

\* printer 1 is stopped at first
Stopped == {Scene(FALSE, FALSE, {1}, {0, 1}, {"lpc", "sub"}),
            Scene(FALSE, TRUE, {1}, {0}, {"lpc", "sub"})}
Failing == {Scene(FALSE, FALSE, {}, {0, 1}, {"abort"}), Scene(FALSE, FALSE, {}, {0}, {"copy"})}
\* the master is killed; in the second a process of printer 2 may outlive it
Killed == {Scene(FALSE, FALSE, {}, {1}, {"move", "moved", "fork"}),
           Scene(FALSE, FALSE, {}, {2}, {"fork"})}
Chosen == {Scene(TRUE, scan, {}, {1}, {}) : scan \in BOOLEAN}

MCScenes == Stopped \union Failing \union Killed \union Chosen
====
