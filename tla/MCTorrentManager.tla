-------------------------- MODULE MCTorrentManager --------------------------
(* A small instance of the torrent life cycle for TLC: one id, under which  *)
(* torrents come and go.                                                    *)
EXTENDS TorrentManager

CONSTANT t1

OneTorrent == {t1}
=============================================================================
