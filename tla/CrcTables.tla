----------------------------- MODULE CrcTables -----------------------------
(***************************************************************************)
(* The two checksum tables of amr.c, entry by entry: they are typed in     *)
(* there, and a single wrong digit would reject good messages.             *)
(***************************************************************************)
EXTENDS Naturals

(* BCH CRC-16, for SCM messages. *)
crc16BCHTable == <<
  \h0000, \h6F63, \hDEC6, \hB1A5, \hD2EF, \hBD8C, \h0C29, \h634A, \hCABD,
  \hA5DE, \h147B, \h7B18, \h1852, \h7731, \hC694, \hA9F7, \hFA19, \h957A,
  \h24DF, \h4BBC, \h28F6, \h4795, \hF630, \h9953, \h30A4, \h5FC7, \hEE62,
  \h8101, \hE24B, \h8D28, \h3C8D, \h53EE, \h9B51, \hF432, \h4597, \h2AF4,
  \h49BE, \h26DD, \h9778, \hF81B, \h51EC, \h3E8F, \h8F2A, \hE049, \h8303,
  \hEC60, \h5DC5, \h32A6, \h6148, \h0E2B, \hBF8E, \hD0ED, \hB3A7, \hDCC4,
  \h6D61, \h0202, \hABF5, \hC496, \h7533, \h1A50, \h791A, \h1679, \hA7DC,
  \hC8BF, \h59C1, \h36A2, \h8707, \hE864, \h8B2E, \hE44D, \h55E8, \h3A8B,
  \h937C, \hFC1F, \h4DBA, \h22D9, \h4193, \h2EF0, \h9F55, \hF036, \hA3D8,
  \hCCBB, \h7D1E, \h127D, \h7137, \h1E54, \hAFF1, \hC092, \h6965, \h0606,
  \hB7A3, \hD8C0, \hBB8A, \hD4E9, \h654C, \h0A2F, \hC290, \hADF3, \h1C56,
  \h7335, \h107F, \h7F1C, \hCEB9, \hA1DA, \h082D, \h674E, \hD6EB, \hB988,
  \hDAC2, \hB5A1, \h0404, \h6B67, \h3889, \h57EA, \hE64F, \h892C, \hEA66,
  \h8505, \h34A0, \h5BC3, \hF234, \h9D57, \h2CF2, \h4391, \h20DB, \h4FB8,
  \hFE1D, \h917E, \hB382, \hDCE1, \h6D44, \h0227, \h616D, \h0E0E, \hBFAB,
  \hD0C8, \h793F, \h165C, \hA7F9, \hC89A, \hABD0, \hC4B3, \h7516, \h1A75,
  \h499B, \h26F8, \h975D, \hF83E, \h9B74, \hF417, \h45B2, \h2AD1, \h8326,
  \hEC45, \h5DE0, \h3283, \h51C9, \h3EAA, \h8F0F, \hE06C, \h28D3, \h47B0,
  \hF615, \h9976, \hFA3C, \h955F, \h24FA, \h4B99, \hE26E, \h8D0D, \h3CA8,
  \h53CB, \h3081, \h5FE2, \hEE47, \h8124, \hD2CA, \hBDA9, \h0C0C, \h636F,
  \h0025, \h6F46, \hDEE3, \hB180, \h1877, \h7714, \hC6B1, \hA9D2, \hCA98,
  \hA5FB, \h145E, \h7B3D, \hEA43, \h8520, \h3485, \h5BE6, \h38AC, \h57CF,
  \hE66A, \h8909, \h20FE, \h4F9D, \hFE38, \h915B, \hF211, \h9D72, \h2CD7,
  \h43B4, \h105A, \h7F39, \hCE9C, \hA1FF, \hC2B5, \hADD6, \h1C73, \h7310,
  \hDAE7, \hB584, \h0421, \h6B42, \h0808, \h676B, \hD6CE, \hB9AD, \h7112,
  \h1E71, \hAFD4, \hC0B7, \hA3FD, \hCC9E, \h7D3B, \h1258, \hBBAF, \hD4CC,
  \h6569, \h0A0A, \h6940, \h0623, \hB786, \hD8E5, \h8B0B, \hE468, \h55CD,
  \h3AAE, \h59E4, \h3687, \h8722, \hE841, \h41B6, \h2ED5, \h9F70, \hF013,
  \h9359, \hFC3A, \h4D9F, \h22FC>>

(* CCITT CRC-16, for SCM+ and IDM messages. *)
crc16CCITTTable == <<
  \h0000, \h1021, \h2042, \h3063, \h4084, \h50A5, \h60C6, \h70E7, \h8108,
  \h9129, \hA14A, \hB16B, \hC18C, \hD1AD, \hE1CE, \hF1EF, \h1231, \h0210,
  \h3273, \h2252, \h52B5, \h4294, \h72F7, \h62D6, \h9339, \h8318, \hB37B,
  \hA35A, \hD3BD, \hC39C, \hF3FF, \hE3DE, \h2462, \h3443, \h0420, \h1401,
  \h64E6, \h74C7, \h44A4, \h5485, \hA56A, \hB54B, \h8528, \h9509, \hE5EE,
  \hF5CF, \hC5AC, \hD58D, \h3653, \h2672, \h1611, \h0630, \h76D7, \h66F6,
  \h5695, \h46B4, \hB75B, \hA77A, \h9719, \h8738, \hF7DF, \hE7FE, \hD79D,
  \hC7BC, \h48C4, \h58E5, \h6886, \h78A7, \h0840, \h1861, \h2802, \h3823,
  \hC9CC, \hD9ED, \hE98E, \hF9AF, \h8948, \h9969, \hA90A, \hB92B, \h5AF5,
  \h4AD4, \h7AB7, \h6A96, \h1A71, \h0A50, \h3A33, \h2A12, \hDBFD, \hCBDC,
  \hFBBF, \hEB9E, \h9B79, \h8B58, \hBB3B, \hAB1A, \h6CA6, \h7C87, \h4CE4,
  \h5CC5, \h2C22, \h3C03, \h0C60, \h1C41, \hEDAE, \hFD8F, \hCDEC, \hDDCD,
  \hAD2A, \hBD0B, \h8D68, \h9D49, \h7E97, \h6EB6, \h5ED5, \h4EF4, \h3E13,
  \h2E32, \h1E51, \h0E70, \hFF9F, \hEFBE, \hDFDD, \hCFFC, \hBF1B, \hAF3A,
  \h9F59, \h8F78, \h9188, \h81A9, \hB1CA, \hA1EB, \hD10C, \hC12D, \hF14E,
  \hE16F, \h1080, \h00A1, \h30C2, \h20E3, \h5004, \h4025, \h7046, \h6067,
  \h83B9, \h9398, \hA3FB, \hB3DA, \hC33D, \hD31C, \hE37F, \hF35E, \h02B1,
  \h1290, \h22F3, \h32D2, \h4235, \h5214, \h6277, \h7256, \hB5EA, \hA5CB,
  \h95A8, \h8589, \hF56E, \hE54F, \hD52C, \hC50D, \h34E2, \h24C3, \h14A0,
  \h0481, \h7466, \h6447, \h5424, \h4405, \hA7DB, \hB7FA, \h8799, \h97B8,
  \hE75F, \hF77E, \hC71D, \hD73C, \h26D3, \h36F2, \h0691, \h16B0, \h6657,
  \h7676, \h4615, \h5634, \hD94C, \hC96D, \hF90E, \hE92F, \h99C8, \h89E9,
  \hB98A, \hA9AB, \h5844, \h4865, \h7806, \h6827, \h18C0, \h08E1, \h3882,
  \h28A3, \hCB7D, \hDB5C, \hEB3F, \hFB1E, \h8BF9, \h9BD8, \hABBB, \hBB9A,
  \h4A75, \h5A54, \h6A37, \h7A16, \h0AF1, \h1AD0, \h2AB3, \h3A92, \hFD2E,
  \hED0F, \hDD6C, \hCD4D, \hBDAA, \hAD8B, \h9DE8, \h8DC9, \h7C26, \h6C07,
  \h5C64, \h4C45, \h3CA2, \h2C83, \h1CE0, \h0CC1, \hEF1F, \hFF3E, \hCF5D,
  \hDF7C, \hAF9B, \hBFBA, \h8FD9, \h9FF8, \h6E17, \h7E36, \h4E55, \h5E74,
  \h2E93, \h3EB2, \h0ED1, \h1EF0>>

=============================================================================
