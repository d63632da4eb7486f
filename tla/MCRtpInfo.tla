------------------------------ MODULE MCRtpInfo -----------------------------
EXTENDS RtpInfo

\* Track URLs whose control part carries an "=", as "trackID=0" does.
MCURLs == {<<"rtsp://h/s/trackID", "=", "0">>, <<"rtsp://h/s/trackID", "=", "1">>}
\* A URL whose query holds a ";".
MCURLsQuery == MCURLs \cup {<<"rtsp://h/s?a", "=", "1", ";", "b", "=", "2">>}
MCURLHeads == {"rtsp://h/s/trackID", "rtsp://h/s?a"}
\* With RtpTimeBits = 20, 2^20 - 1 and 2^20 stand for 2^32 - 1 and 2^32.
MCSeqValues == {0, 65535}
MCTsValues == {0, 1048575}
MCNumDomain == {0, 1, 65535, 65536, 1048575, 1048576}
\* An entry without url, as RFC 2326 servers of other makes may send it.
MCForeignNoURL == {<< <<"seq", "=", "1", ";", "rtptime", "=", "0">> >>}
\* Values Read must refuse: a uint16 overflow, an unknown key, two values.
MCForeignBad == {<< <<"url", "=", "rtsp://h/s/trackID", "=", "0", ";", "seq", "=", "65536">> >>,
                 << <<"url", "=", "rtsp://h/s/trackID", "=", "0", ";", "ssrc", "=", "1">> >>,
                 << <<"seq", "=", "1">>, <<"seq", "=", "1">> >>,
                 << <<>> >>}
=============================================================================
