------------------------------- MODULE MCSchema -------------------------------
(* Instances of Schema for TLC: what earlier versions of ateam may have left. *)
EXTENDS Schema

Row(stream, dir, cmd) == [stream |-> stream, dir |-> dir, cmd |-> cmd]

Empty == [calls |-> FALSE, execs |-> FALSE, columns |-> {}, rows |-> <<>>]

\* Before work_dir there were none; before agent_execs, absolute paths.
Left ==
  {Empty}
  \cup {[Empty EXCEPT !.calls = TRUE, !.columns = {"task_group"} \cup c,
                      !.rows = <<Row("near", "", "here"), Row(s, "", "")>>] :
          c \in SUBSET {"pid"}, s \in {"far", ""}}
  \cup {[Empty EXCEPT !.execs = TRUE, !.columns = {g} \cup c,
                      !.rows = <<Row("relative", "", "here"), Row("near", IF "work_dir" \in c THEN d ELSE "", x)>>] :
          g \in {"task_group", "batch"}, c \in SUBSET {"pid", "work_dir", "peak"}, d \in {"", "there"}, x \in {"", "there"}}

Somewhere == {"here", "there"}
=============================================================================
