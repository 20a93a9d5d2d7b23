------------------------ MODULE MC_AnalysisPipeline --------------------------
(***************************************************************************)
(* Two country codes, one country name, one town in two spellings, and the *)
(* addresses that take each branch of the providers.  The service infers   *)
(* the right place, a wrong place with an over-long town, a country the    *)
(* rules reject and no town, or nothing.                                   *)
(***************************************************************************)
EXTENDS AnalysisPipeline

MCNameToCode == [x \in {"GERMANY"} |-> "DE"]
MCUpper == [x \in {"Germany"} |-> "GERMANY"]
MCSqueeze == [x \in {"Ber  lin"} |-> "Ber lin"]
MCNumerals == [x \in {"7"} |-> 7]

Addr(country, town, lines, path) ==
    [country |-> country, town |-> town, lines |-> lines, street |-> FALSE, path |-> path]

Ready == Addr("DE", "Berlin", <<>>, TRUE)
Named == Addr("Germany", None, <<>>, TRUE)
Spaced == Addr("US", "Ber  lin", <<>>, TRUE)
Lines == Addr(None, None, <<<<"Berlin", "Germany">>>>, TRUE)
Unknown == Addr("XX", None, <<>>, TRUE)
Blank == [Addr(None, None, <<>>, FALSE) EXCEPT !.street = TRUE]
Nowhere == Addr(None, None, <<>>, TRUE)

Tx(amount, debtor, agent) ==
    [amount |-> amount, lacks |-> {"end_to_end_id"},
     addresses |-> [l \in Labels |-> IF l = "Dbtr" THEN debtor
                                     ELSE IF l = "CdtrAgt" THEN agent ELSE NoAddress]]

Message(format, sound, txs) == [format |-> format, sound |-> sound, txs |-> txs]

In(entry, version, repair, message) ==
    [entry |-> entry, doc |-> "well_formed", version |-> version, repair |-> repair,
     allowed |-> {"pacs.008"}, limit |-> 1, message |-> message]

Pairs == {<<Named, Lines>>, <<Spaced, NoAddress>>, <<Unknown, Ready>>,
          <<Blank, Nowhere>>, <<NoAddress, NoAddress>>}

MCInputs ==
    {In("analyze", "pacs.008", TRUE, Message("XML_PACS_008", TRUE, <<Tx(5, p[1], p[2])>>))
        : p \in Pairs}
    \cup {In("analyze", "pacs.008", TRUE, Message("XML_PACS_008", FALSE, <<Tx(0, Ready, NoAddress)>>)),
          In("analyze", "pacs.008", FALSE, Message("XML_PACS_008", TRUE, <<Tx(5, Lines, Unknown)>>)),
          In("iso", "pain.001", TRUE, Message("XML_PAIN_001", TRUE, <<Tx(5, Named, NoAddress)>>)),
          In("profile", "none", TRUE, Message("JSON", TRUE, <<Tx(5, Named, NoAddress), Tx(5, Ready, NoAddress)>>)),
          In("profile", "pacs.008", TRUE, Message("XML_PACS_008", TRUE, <<Tx(5, Lines, NoAddress)>>)),
          In("iso", "camt.053", TRUE, Message("OTHER", TRUE, <<>>)),
          In("iso", "camt.053", TRUE, Message("OTHER", TRUE,
                                              <<Tx(5, NoAddress, NoAddress), Tx(5, NoAddress, NoAddress)>>)),
          In("iso", "pacs.008", TRUE, Message("XML_PACS_008", TRUE,
                                              <<Tx(5, Ready, NoAddress), Tx(5, Ready, NoAddress)>>)),
          In("analyze", "pain.001", TRUE, Message("XML_PAIN_001", TRUE, <<>>)),
          [In("iso", "pacs.008", TRUE, Message("OTHER", TRUE, <<>>)) EXCEPT !.doc = "prohibited_entity"]}

Answer(country, town, countryConf, townConf) ==
    [country |-> country, town |-> town, countryConf |-> countryConf, townConf |-> townConf]

MCAnswers == {Answer("DE", "Berlin", 60, 60), Answer("US", "LongTown", 20, 20),
              Answer("XX", "NO TOWN", 95, 15), Answer("NO COUNTRY", "NO TOWN", 15, 15)}

MCConfigs == {[rule |-> "CUST-1", field |-> <<"Dbtr", "country">>, operator |-> "in",
               value |-> [kind |-> "list", v |-> {Text("US"), Text("XX")}],
               severity |-> "CRITICAL", classification |-> "CUSTOMER_CONFIGURABLE"]}
=============================================================================
