----------------------------- MODULE UrlSlices -----------------------------
(***************************************************************************)
(* core/urllist.py, core/parquet_urls.py and scripts/slice_urls.py: where  *)
(* the URLs of a list are, and how disjoint slices are cut from them.      *)
(*                                                                         *)
(* A table is its column names and its files, each a sequence of rows, a   *)
(* row being one field per column.  A text list is a sequence of lines, a  *)
(* line being its tab-separated fields, already stripped.                  *)
(***************************************************************************)
EXTENDS Integers, Sequences, SequencesExt, FiniteSetsExt

URL_COLUMN_NAMES == <<"url", "image_url", "URL", "IMAGE_URL">>

NoColumn == ""

\* The first of the names, in their order, that the table has.
choose_url_column(columns) ==
    LET known == {i \in DOMAIN URL_COLUMN_NAMES : Contains(columns, URL_COLUMN_NAMES[i])}
    IN  IF known = {} THEN NoColumn ELSE URL_COLUMN_NAMES[Min(known)]

IndexIn(columns, name) == CHOOSE i \in DOMAIN columns :
    columns[i] = name /\ \A j \in 1..i - 1 : columns[j] # name

-----------------------------------------------------------------------------
(* Tables *)

\* A file, or every file of a directory in order; only as many as hold
\* at_least rows.
read_urls(table, at_least) ==
    LET enough == {k \in DOMAIN table.files :
                     Len(FlattenSeq(SubSeq(table.files, 1, k))) >= at_least}
        last == CHOOSE k \in enough : \A j \in enough : k <= j
    IN  FlattenSeq(IF enough = {} THEN table.files ELSE SubSeq(table.files, 1, last))

\* n_slices slices of count rows each, or none of them.
slice_table(rows, count, n_slices, offset) ==
    IF Len(rows) < offset + count * n_slices THEN <<>>
    ELSE [i \in 1..n_slices |->
            SubSeq(rows, offset + (i - 1) * count + 1, offset + i * count)]

\* What a dry run reports: the rows there are, and the column if there is one.
describe(table) ==
    [num_rows |-> Len(FlattenSeq(table.files)),
     url_column |-> choose_url_column(table.columns)]

\* The exit status and the slices written, each the URLs it holds.
cut_parquet(table, count, n_slices, offset) ==
    LET column == choose_url_column(table.columns)
        slices == slice_table(read_urls(table, offset + count * n_slices),
                              count, n_slices, offset)
        Url(r) == r[IndexIn(table.columns, column)]
    IN  IF column = NoColumn \/ table.files = <<>> \/ slices = <<>>
        THEN [rc |-> 1, slices |-> <<>>]
        ELSE [rc |-> 0, slices |-> [i \in DOMAIN slices |->
                                      [j \in DOMAIN slices[i] |-> Url(slices[i][j])]]]

-----------------------------------------------------------------------------
(* Text *)

looks_like_header(line) == choose_url_column(line) # NoColumn

\* The index of the column; 0 for the whole line, of a file with one field.
find_url_column(header) ==
    IF Len(header) = 1 THEN 0 ELSE IndexIn(header, choose_url_column(header))

\* A line that is too short has no URL.
Field(line, column) ==
    IF column = 0 THEN Head(line)
    ELSE IF column <= Len(line) THEN line[column] ELSE ""

\* Tab-separated without a header: which column it is cannot be told.
Ambiguous(lines) == ~looks_like_header(Head(lines)) /\ Len(Head(lines)) > 1

\* Those that are not blank, in their order.
NotBlank(urls) == FoldLeft(LAMBDA kept, u : IF u = "" THEN kept ELSE Append(kept, u), <<>>, urls)

\* Slip: the header is taken for a row.
UrlsWithHeader(lines) ==
    LET column == IF looks_like_header(Head(lines)) THEN find_url_column(Head(lines)) ELSE 0
        urls == [i \in DOMAIN lines |-> Field(lines[i], column)]
    IN  IF lines = <<>> THEN <<>> ELSE NotBlank(urls)

\* The URLs in order, blank ones dropped.
extract_urls(lines) ==
    LET header == lines # <<>> /\ looks_like_header(Head(lines))
        column == IF header THEN find_url_column(Head(lines)) ELSE 0
        body == IF header THEN Tail(lines) ELSE lines
    IN  NotBlank([i \in DOMAIN body |-> Field(body[i], column)])

\* The slices that could be filled are written before the status says that
\* not all of them could.
cut_text(lines, count, n_slices, offset) ==
    LET urls == extract_urls(lines)
        left == IF Len(urls) > offset THEN Len(urls) - offset ELSE 0
        whole == left \div count
        written == IF whole < n_slices THEN whole ELSE n_slices
    IN  IF lines # <<>> /\ Ambiguous(lines) THEN [rc |-> 2, slices |-> <<>>]
        ELSE [rc |-> IF written < n_slices THEN 1 ELSE 0,
              slices |-> [i \in 1..written |->
                            SubSeq(urls, offset + (i - 1) * count + 1, offset + i * count)]]

-----------------------------------------------------------------------------
(* Either *)

\* slice_urls.py: a file or directory of parquet, or a list.
slice_urls(source, count, n_slices, offset) ==
    IF source.format = "parquet" THEN cut_parquet(source, count, n_slices, offset)
    ELSE cut_text(source.lines, count, n_slices, offset)

\* A table as the list it would be, written with its header.
AsText(table) == <<table.columns>> \o FlattenSeq(table.files)
=============================================================================
