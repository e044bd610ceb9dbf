---------------------------- MODULE MCPathRules -----------------------------
(* A document root whose configuration lists the folders it does not serve in  *)
(* an array, and the URLs it is asked for afterwards.                          *)
EXTENDS PathRules

CONSTANT MaxFolders     \* bound on the length of the lists

VARIABLES array,        \* "exclude" of gatn.json
          m_disabled,   \* the text the root makes of it
          url, denied   \* the last URL, and what disabled() said

Names == {"docs", "old"}
Folder(n) == <<"/", n, "/">>
Urls == {<<"/", n, "/", "page">> : n \in Names} \cup {<<"/", "page">>}

Init ==
    /\ array \in UNION {[1..n -> {Folder(f) : f \in Names}] : n \in 0..MaxFolders}
    /\ m_disabled = add_path(<<>>, json_array_to_path(array))
    /\ url = <<>> /\ denied = FALSE

Ask(u) ==
    /\ url' = u
    /\ denied' = disabled(m_disabled, get_url_path(u))
    /\ UNCHANGED <<array, m_disabled>>

Next == \E u \in Urls : Ask(u)

Spec == Init /\ [][Next]_<<array, m_disabled, url, denied>>

\* gatn.cpp:449: "disabled area inside documents root (by example: /folder1/:/folder2/:...)".
\* A URL is refused only if it lies in a folder of the array.
OnlyNamedDisabled == denied => InFolders(url, {array[i] : i \in DOMAIN array})
=============================================================================
