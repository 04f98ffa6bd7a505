---------------------------- MODULE MCDimensions ----------------------------
(***************************************************************************)
(* A small instance of Dimensions: clients, two slots of them and a device *)
(* may have several; and a status of two labels, which a report may also   *)
(* give by number.  Queried by client, and by client and status.           *)
(***************************************************************************)
EXTENDS Dimensions

MCDims == << [values |-> <<>>, capacity |-> 2, multi |-> TRUE],
             [values |-> <<"off", "on">>, capacity |-> 0, multi |-> FALSE] >>
MCShapes == << <<1>>, <<1, 2>> >>
MCValue == {"a", "b", "c", "x", "", "1", "off", "on"}
MCNumeral == [v \in MCValue |-> IF v = "1" THEN 1 ELSE 99]

Report(dev, client, status) ==
    [id |-> dev, dims |-> <<client, status>>, cat |-> ABSENT, extra |-> FALSE,
     at |-> "both", big |-> FALSE]
Compact(items) == [form |-> "compact", idProp |-> FALSE, items |-> items]

Feature(id, props) == [id |-> id, geom |-> "point", props |-> props]
Props(id, key, client) ==
    [id |-> id, key |-> key, dims |-> <<client, ABSENT>>, readable |-> TRUE, big |-> FALSE]
Geo(idProp, items) == [form |-> "geo", idProp |-> idProp, items |-> items]

\* The first report of the first request takes a slot and is refused.
MCBatches ==
    { Compact(<< Report("d1", <<"c">>, <<"a">>),
                 [Report("d1", ABSENT, ABSENT) EXCEPT !.cat = "a"],
                 Report("d2", <<"c">>, <<>>) >>),
      \* Half a position and oversized properties, both with a value of their own;
      \* a value that is refused before another; a dimension there is not; then a
      \* patch.
      Compact(<< [Report("d1", <<"x">>, ABSENT) EXCEPT !.at = "one"],
                 [Report("d1", <<"x">>, ABSENT) EXCEPT !.big = TRUE],
                 Report("d1", <<"", "x">>, ABSENT),
                 [Report("d2", ABSENT, ABSENT) EXCEPT !.extra = TRUE],
                 [Report("d2", <<"b", "a">>, <<"1">>) EXCEPT !.at = "neither"] >>),
      \* The id in the property the request names, and nowhere; and with the
      \* coordinates the wrong way round.
      Geo(TRUE, << Feature("d1", Props("d1", "d2", <<"b">>)),
                   Feature("d1", Props("d1", NONE, <<"x">>)),
                   [Feature("d1", Props(NONE, "d1", <<"x">>)) EXCEPT !.geom = "swapped"] >>),
      \* The id on the Feature, in properties.id, and nowhere.
      Geo(FALSE, << Feature(NONE, NONE), Feature("d2", NONE),
                    Feature(NONE, Props("d1", "d2", <<"a">>)) >>) }
=============================================================================
