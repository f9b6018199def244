-------------------------- MODULE MCStageQuarantine --------------------------
(* The eight stage jobs over landing tables with duplicates and NULL keys. *)
EXTENDS StageQuarantine, TLC

MCJobs == DOMAIN Configs

\* Every column of the key is 1.
Plain(conf) == [col \in conf.dedup |-> 1]

\* A column that no job filters on, if there is one.
Free(conf) == conf.dedup \ conf.required

\* Two copies of a key, and two of a key that has a NULL in some column: in
\* the primary key, in a column of the natural key that may be NULL, or, where
\* there is none, in a required one.
Messy(conf) ==
    LET col == CHOOSE x \in conf.dedup : Free(conf) # {} => x \in Free(conf)
        null == [Plain(conf) EXCEPT ![col] = Null]
    IN {[id |-> 1, key |-> Plain(conf)], [id |-> 2, key |-> Plain(conf)],
        [id |-> 3, key |-> null], [id |-> 4, key |-> null]}

\* One row; one column of its key differs from that of the other rows.
Tidy(conf) ==
    LET col == CHOOSE x \in conf.dedup : TRUE
    IN {[id |-> 5, key |-> [Plain(conf) EXCEPT ![col] = 2]]}

\* Tidy, and a row with a NULL in every required column.
Gaps(conf) ==
    Tidy(conf) \cup
    {[id |-> 6, key |-> [col \in conf.dedup |->
                            IF col \in conf.required THEN Null ELSE 1]]}

MCLandings ==
    [j \in MCJobs |-> {Messy(Configs[j]), Tidy(Configs[j]), Gaps(Configs[j])}]

=============================================================================
