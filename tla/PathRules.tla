----------------------------- MODULE PathRules -----------------------------
(***************************************************************************)
(* The folders a document root does not serve, or does not cache           *)
(* (gatn/libgatn/root.cpp).  They are kept as one text, the paths joined   *)
(* by colons, and compared with the beginning of a URL.                    *)
(*                                                                         *)
(* A text is a sequence of pieces: "/", ":" and parts of names, such that  *)
(* one text begins with another exactly when the pieces do (the name       *)
(* folder10 is the pieces folder1 and 0).                                  *)
(***************************************************************************)
EXTENDS Integers, SequencesExt

\* json_array_to_path: every string of the array, each followed by a colon
json_array_to_path(array) == FlattenSeq([i \in 1..Len(array) |-> Append(array[i], ":")])

\* Mutation: the end of a path is left as it is.
add_path_OpenEnd(old, path) ==
    LET lead == IF path[1] # "/" THEN <<"/">> ELSE <<>>
    IN IF path = <<>> THEN old ELSE (IF old = <<>> THEN <<>> ELSE Append(old, ":")) \o lead \o path

\* cache_exclude and disable_path: "path" joins the text, with a slash before and after
\* it unless it has them.  The path is a list of folders itself as often as not.
add_path(old, path) ==
    LET lead == IF path[1] # "/" THEN <<"/">> ELSE <<>>
        tail == IF Last(path) # "/" THEN <<"/">> ELSE <<>>
    IN IF path = <<>> THEN old
       ELSE (IF old = <<>> THEN <<>> ELSE Append(old, ":")) \o lead \o path \o tail

\* What lies between two colons, or a colon and an end of the text
Entries(text) ==
    LET colons == {i \in 1..Len(text) : text[i] = ":"}
        ends == {0, Len(text) + 1} \cup colons
    IN {SubSeq(text, p[1] + 1, p[2] - 1) : p \in
          {q \in ends \X ends : q[1] < q[2] /\ \A k \in colons : ~(q[1] < k /\ k < q[2])}} \ {<<>>}

\* get_url_path: the URL up to its last slash
get_url_path(url) ==
    LET slashes == {i \in 1..Len(url) : url[i] = "/"}
    IN IF slashes = {} THEN <<>> ELSE SubSeq(url, 1, CHOOSE i \in slashes : \A j \in slashes : j <= i)

disabled(text, path) == \E e \in Entries(text) : IsPrefix(e, path)

cacheable(text, path) == ~\E e \in Entries(text) : IsPrefix(e, path)

\* What the comments of the code promise: a URL in one of the folders, or below
InFolders(url, folders) == \E f \in folders : IsPrefix(f, url)
=============================================================================
